---- MODULE Spec2Model ----
(***************************************************************************)
(* JumpGame: the jump-resolution and failure state machine, the platform   *)
(* lifecycle and the session state machine, stepped one frame at a time.   *)
(*                                                                         *)
(* Units.  Lengths are integers in units of 0.005 world units (1.5 = 300). *)
(* Times are integers in units of 0.05 s (0.5 s = 10).  With these units   *)
(* the charge displacement 3.0 * d and the fall rate 0.7 * dt are exact.   *)
(* An Instant stored in the Accumulator is represented by its age, the     *)
(* time elapsed since it was taken, which is what elapsed() reads.         *)
(*                                                                         *)
(* The world.  Every system is an operator from the world it finds to the  *)
(* world it leaves; a world is a record of the resources and entities      *)
(* below together with what lives for one frame only: the frame time, the  *)
(* just_pressed and just_released flags, the menu interaction, the         *)
(* deferred Commands and the cues (audio players, popups) spawned.         *)
(*                                                                         *)
(* A frame is one step: First and PreUpdate (time and input), then         *)
(* StateTransition, then the Update systems of the current GameState in    *)
(* the order main.rs lists them, then the application of the Commands.     *)
(*                                                                         *)
(* Specifications.  Spec is the app, frame by frame; FairSpec is Spec with *)
(* frames of play that keep coming.  GeometrySpec makes single calls of    *)
(* the PlatformShape tests.  CameraSpec follows move_camera, which Spec    *)
(* leaves out: nothing in the app reads the camera back.                   *)
(***************************************************************************)
EXTENDS Integers, Sequences, FiniteSets, TLC

VARIABLES
    game_state,         \* State<GameState>
    next_game_state,    \* NextState<GameState>: <<>> or <<s>>
    pressed,            \* ButtonInput<MouseButton>: Left is held down
    platforms,          \* platform entities: Transform, PlatformShape, markers
    players,            \* Player entities: Transform
    score,              \* Score
    accumulator,        \* Accumulator: <<>> (None) or <<age>> (Some)
    jump_state,         \* JumpState
    fall_state,         \* FallState
    score_up_queue,     \* ScoreUpQueue
    prepare_jump_timer, \* PrepareJumpTimer: elapsed time of the Timer
    probe,              \* a call of the PlatformShape tests on its own: its arguments
    verdict,            \* what that call returned
    camera,             \* the translation of the camera's Transform
    camera_move_state   \* CameraMoveState

\* the resources and entities of the app
app == <<game_state, next_game_state, pressed, platforms, players, score,
         accumulator, jump_state, fall_state, score_up_queue, prepare_jump_timer>>

vars == <<app, probe, verdict, camera, camera_move_state>>

----------------------------------------------------------------------------
(* Bounds of the model *)

\* the score a session is followed up to: a frame that would score beyond it
\* is not taken
MaxScore == 1
\* the longest charge the player holds, in time units (1.3 s)
MaxCharge == 26

\* frame times the clock produces: 0.1 s and 0.2 s
FrameDeltas == {2, 4}
\* charge durations after which the player lets go: 0.2 s (a hop on Current),
\* 0.3 s (the edge of Current), 0.5 s (between the platforms), 1.0 s (the centre
\* of Next) and 1.3 s (the far edge of Next)
Charges == {4, 6, 10, 20, 26}
Shapes == {"Box", "Cylinder"}

----------------------------------------------------------------------------
(* Program constants, in model units *)

\* INITIAL_PLAYER_POS.y = 1.5
REST_HEIGHT == 300
\* platform height 0.5
PLATFORM_Y == 100
\* half of the Box footprint, 1.5 / 2.0
BOX_HALF == 150
\* radius of the Cylinder, 0.75
CYLINDER_RADIUS == 150
\* probe radius of the edge-touch test, 0.2
PLAYER_RADIUS == 40
\* layout-axis epsilon, 0.1
AXIS_EPSILON == 20
\* displacement per time unit: 3.0 per second
JUMP_SPEED == 30
\* shortest arc animation, 0.5 s
MIN_JUMP_DURATION == 10
\* fall rate per time unit: 0.7 per second
FALL_SPEED == 7
\* floor threshold of a straight fall, 0.5
STRAIGHT_FLOOR == 100
\* floor threshold of the descent after a tilt, 0.2
TILT_FLOOR == 40
\* the tilt pivot lies 0.5 below the rest height
PIVOT_DROP == 100
\* a quarter turn at FRAC_PI_2 per second takes 1 s
QUARTER_TURN == 20
\* a ScoreUpEvent sits 0.5 above the landing position
POPUP_RISE == 100
\* PrepareJumpTimer: 200 ms
PREPARE_DURATION == 4
\* lower and upper end of gen_range(2.5..4.0)
MIN_DISTANCE == 500
MAX_DISTANCE == 800

Vec3(x, y, z) == [x |-> x, y |-> y, z |-> z]
ZERO == Vec3(0, 0, 0)
X_AXIS == Vec3(1, 0, 0)
NEG_X == Vec3(-1, 0, 0)
Z_AXIS == Vec3(0, 0, 1)
NEG_Z == Vec3(0, 0, -1)
INITIAL_PLAYER_POS == Vec3(0, REST_HEIGHT, 0)

Abs(n) == IF n < 0 THEN -n ELSE n
Max(a, b) == IF a > b THEN a ELSE b
Min(a, b) == IF a < b THEN a ELSE b

----------------------------------------------------------------------------
(* Platform geometry: platform.rs, impl PlatformShape *)

\* a landing test with a round footprint for the Cylinder
is_landed_on_round_cylinder(shape, platform_pos, landing_pos) ==
    IF shape = "Box"
    THEN /\ Abs(landing_pos.x - platform_pos.x) < BOX_HALF
         /\ Abs(landing_pos.z - platform_pos.z) < BOX_HALF
    ELSE (landing_pos.x - platform_pos.x) * (landing_pos.x - platform_pos.x)
             + (landing_pos.z - platform_pos.z) * (landing_pos.z - platform_pos.z)
         < CYLINDER_RADIUS * CYLINDER_RADIUS

is_landed_on_platform(shape, platform_pos, landing_pos) ==
    IF shape = "Box"
    THEN /\ Abs(landing_pos.x - platform_pos.x) < BOX_HALF
         /\ Abs(landing_pos.z - platform_pos.z) < BOX_HALF
    ELSE /\ Abs(landing_pos.x - platform_pos.x) < CYLINDER_RADIUS
         /\ Abs(landing_pos.z - platform_pos.z) < CYLINDER_RADIUS

\* a touch test that counts the edge of the widened footprint as touched
is_touched_player_inclusive(shape, platform_pos, landing_pos, player_radius) ==
    IF shape = "Box"
    THEN /\ Abs(landing_pos.x - platform_pos.x) <= BOX_HALF + player_radius
         /\ Abs(landing_pos.z - platform_pos.z) <= BOX_HALF + player_radius
    ELSE /\ Abs(landing_pos.x - platform_pos.x) <= CYLINDER_RADIUS + player_radius
         /\ Abs(landing_pos.z - platform_pos.z) <= CYLINDER_RADIUS + player_radius

\* a touch test that reaches three player radii beyond the footprint
is_touched_player_far(shape, platform_pos, landing_pos, player_radius) ==
    /\ Abs(landing_pos.x - platform_pos.x) < BOX_HALF + 3 * player_radius
    /\ Abs(landing_pos.z - platform_pos.z) < BOX_HALF + 3 * player_radius

is_touched_player(shape, platform_pos, landing_pos, player_radius) ==
    IF shape = "Box"
    THEN /\ Abs(landing_pos.x - platform_pos.x) < BOX_HALF + player_radius
         /\ Abs(landing_pos.z - platform_pos.z) < BOX_HALF + player_radius
    ELSE /\ Abs(landing_pos.x - platform_pos.x) < CYLINDER_RADIUS + player_radius
         /\ Abs(landing_pos.z - platform_pos.z) < CYLINDER_RADIUS + player_radius

----------------------------------------------------------------------------
(* Resources and entities *)

JumpStateDefault ==
    [start_pos |-> ZERO, end_pos |-> ZERO, animation_duration |-> 0,
     falled |-> FALSE, completed |-> TRUE]

Straight == [kind |-> "Straight", direction |-> ZERO]
Tilt(direction) == [kind |-> "Tilt", direction |-> direction]

FallStateDefault ==
    [pos |-> ZERO, fall_type |-> Straight, tilt_completed |-> TRUE,
     completed |-> TRUE, played_sound |-> TRUE]

\* Transform::from_translation(INITIAL_PLAYER_POS).  While an arc is flown the
\* translation is start_pos carried round around_point by the angle PI * swept /
\* animation_duration; `tilt` is the angle FRAC_PI_2 * tilt / QUARTER_TURN the
\* player has been tipped over the pivot; `upright` is rotation == IDENTITY.
PlayerTransform ==
    [translation |-> INITIAL_PLAYER_POS, swept |-> 0, tilt |-> 0, upright |-> TRUE]

\* a platform entity: its Transform, its PlatformShape and its marker components
Platform(pos, shape, current, next) ==
    [translation |-> pos, shape |-> shape, current |-> current, next |-> next]

\* Query<_, With<CurrentPlatform>> and Query<_, With<NextPlatform>>
q_current_platform(ps) == {e \in DOMAIN ps : ps[e].current}
q_next_platform(ps) == {e \in DOMAIN ps : ps[e].next}
\* Query::single
Single(q) == CHOOSE e \in q : TRUE

\* the world at a frame boundary: nothing is just pressed or released, no
\* Commands are pending
World ==
    [game_state |-> game_state, next_game_state |-> next_game_state,
     buttons |-> [pressed |-> pressed, just_pressed |-> FALSE, just_released |-> FALSE],
     platforms |-> platforms, players |-> players, score |-> score,
     accumulator |-> accumulator, jump_state |-> jump_state,
     fall_state |-> fall_state, score_up_queue |-> score_up_queue,
     prepare_jump_timer |-> prepare_jump_timer,
     delta |-> 0, interaction |-> "None", commands |-> <<>>, cues |-> <<>>]

\* the app after construction
Startup ==
    /\ game_state = "MainMenu"
    /\ next_game_state = <<>>
    /\ pressed = FALSE
    /\ platforms = <<>>
    /\ players = <<>>
    /\ score = 0
    /\ accumulator = <<>>
    /\ jump_state = JumpStateDefault
    /\ fall_state = FallStateDefault
    /\ score_up_queue = <<>>
    /\ prepare_jump_timer = 0

\* INITIAL_CAMERA_POS and CameraMoveState::default(): camera.rs.  The camera
\* and the step are kept in units of 1 / STEP_DIVISOR of a length unit.
STEP_DIVISOR == 20
MOVE_EPSILON == 20
FINE == STEP_DIVISOR
Scaled(v, k) == Vec3(v.x * k, v.y * k, v.z * k)
INITIAL_CAMERA_POS == Vec3(-1000, 1600, 1000)
CameraMoveStateDefault == [step |-> ZERO, player_pos |-> INITIAL_PLAYER_POS]

\* setup_camera and the resources inserted by main
Cameras ==
    /\ camera = Scaled(INITIAL_CAMERA_POS, FINE)
    /\ camera_move_state = CameraMoveStateDefault

\* Spec follows the app without its camera, which nothing in the app reads back;
\* CameraSpec follows the camera
Init == Startup /\ probe = <<>> /\ verdict = <<>> /\ Cameras

----------------------------------------------------------------------------
(* Platform lifecycle: platform.rs *)

\* spawn_rand_platform: a new entity with the given position, shape and marker
spawn_rand_platform(ps, pos, shape, current, next) ==
    Append(ps, Platform(pos, shape, current, next))

\* setup_first_platform, with the shape rand_platform_shape drew
setup_first_platform(ps, shape) ==
    spawn_rand_platform(ps, Vec3(0, PLATFORM_Y, 0), shape, TRUE, FALSE)

\* a session start that leaves the platforms of the session before in the world
clear_platforms_keeping_all(ps) == ps

\* clear_platforms: despawn every entity With<PlatformShape>
clear_platforms(ps) == SelectSeq(ps, LAMBDA p : p.shape \notin Shapes)

\* a session start that leaves the player of the session before in the world
clear_player_keeping_all(pl) == pl

\* clear_player: despawn every entity With<Player>
clear_player(pl) == SubSeq(pl, 1, 0)

\* setup_player: one Player entity at INITIAL_PLAYER_POS
setup_player(pl) == Append(pl, PlayerTransform)

\* a next_pos that goes towards +Z when the coin falls on Z
next_pos_towards_plus_z(current_translation, rand_distance, along_x) ==
    IF along_x
    THEN Vec3(current_translation.x + rand_distance, PLATFORM_Y, current_translation.z)
    ELSE Vec3(current_translation.x, PLATFORM_Y, current_translation.z + rand_distance)

\* next_pos of generate_next_platform for the sampled distance and coin
next_pos(current_translation, rand_distance, along_x) ==
    IF along_x
    THEN Vec3(current_translation.x + rand_distance, PLATFORM_Y, current_translation.z)
    ELSE Vec3(current_translation.x, PLATFORM_Y, current_translation.z - rand_distance)

\* what rand::thread_rng gives one call of generate_next_platform: the distance
\* from gen_range(2.5..4.0), the coin and the shape.  Two draws are followed: a
\* Box 3.0 further along X and a Cylinder 3.0 further along -Z.
Draws ==
    { [rand_distance |-> 600, along_x |-> TRUE, shape |-> "Box"],
      [rand_distance |-> 600, along_x |-> FALSE, shape |-> "Cylinder"] }

\* a generation step that does not look for a Next
generate_commands_unconditional(ps, draw) ==
    LET current_platform == ps[Single(q_current_platform(ps))]
    IN  <<[op |-> "spawn",
           platform |-> Platform(next_pos(current_platform.translation,
                                          draw.rand_distance, draw.along_x),
                                 draw.shape, FALSE, TRUE)]>>

\* the spawn command generate_next_platform issues when no Next exists
generate_commands(ps, draw) ==
    IF q_next_platform(ps) = {}
    THEN LET current_platform == ps[Single(q_current_platform(ps))]
         IN  <<[op |-> "spawn",
                platform |-> Platform(next_pos(current_platform.translation,
                                               draw.rand_distance, draw.along_x),
                                      draw.shape, FALSE, TRUE)]>>
    ELSE <<>>

\* generate_next_platform
generate_next_platform(w, draw) ==
    [w EXCEPT !.commands = @ \o generate_commands(w.platforms, draw)]

EntityCommand(op, e) == [op |-> op, entity |-> e]

\* one deferred command applied to the platform entities
ApplyCommand(ps, c) ==
    CASE c.op = "spawn" -> Append(ps, c.platform)
      [] c.op = "remove_next" -> [ps EXCEPT ![c.entity].next = FALSE]
      [] c.op = "insert_current" -> [ps EXCEPT ![c.entity].current = TRUE]
      [] c.op = "remove_current" -> [ps EXCEPT ![c.entity].current = FALSE]

RECURSIVE ApplyCommands(_, _)
ApplyCommands(ps, cs) ==
    IF cs = <<>> THEN ps
    ELSE ApplyCommands(ApplyCommand(ps, Head(cs)), Tail(cs))

\* the Commands of the Update systems are applied to the world
apply_deferred(w) ==
    [w EXCEPT !.platforms = ApplyCommands(w.platforms, w.commands),
              !.commands = <<>>]

----------------------------------------------------------------------------
(* Jump resolver: player.rs, player_jump *)

\* Timer::finished of the PrepareJumpTimer
prepare_finished(w) == w.prepare_jump_timer >= PREPARE_DURATION

\* prepare_jump: Timer::tick of a TimerMode::Once timer
prepare_jump(w) ==
    [w EXCEPT !.prepare_jump_timer = Min(@ + w.delta, PREPARE_DURATION)]

\* the layout is along Z when the X-difference of Next and Current is below 0.1
layout_along_z(current_translation, next_translation) ==
    next_translation.x - current_translation.x < AXIS_EPSILON

\* a landing position measured from the centre of Current
landing_from_current(current_translation, next_translation, player_translation, elapsed) ==
    IF next_translation.x - current_translation.x < AXIS_EPSILON
    THEN Vec3(current_translation.x, INITIAL_PLAYER_POS.y,
              current_translation.z - JUMP_SPEED * elapsed)
    ELSE Vec3(current_translation.x + JUMP_SPEED * elapsed, INITIAL_PLAYER_POS.y,
              current_translation.z)

\* a landing position that travels towards +Z on a layout along Z
landing_position_towards_plus_z(current_translation, next_translation, player_translation, elapsed) ==
    IF next_translation.x - current_translation.x < AXIS_EPSILON
    THEN Vec3(player_translation.x, INITIAL_PLAYER_POS.y,
              player_translation.z + JUMP_SPEED * elapsed)
    ELSE Vec3(player_translation.x + JUMP_SPEED * elapsed, INITIAL_PLAYER_POS.y,
              player_translation.z)

\* landing_pos for the charge duration `elapsed`
landing_position(current_translation, next_translation, player_translation, elapsed) ==
    IF layout_along_z(current_translation, next_translation)
    THEN Vec3(player_translation.x, INITIAL_PLAYER_POS.y,
              player_translation.z - JUMP_SPEED * elapsed)
    ELSE Vec3(player_translation.x + JUMP_SPEED * elapsed, INITIAL_PLAYER_POS.y,
              player_translation.z)

\* (elapsed / 2.0).max(0.5); the charges that are followed in play are whole
\* tenths of a second, for which the half is exact
jump_duration(elapsed) == Max(elapsed \div 2, MIN_JUMP_DURATION)

\* an animate_jump that takes the landing position for the start as well
JumpState_animate_jump_from_landing(js, start_pos, end_pos, animation_duration) ==
    [js EXCEPT !.start_pos = end_pos, !.end_pos = end_pos,
               !.animation_duration = animation_duration, !.completed = FALSE]

\* JumpState::animate_jump
JumpState_animate_jump(js, start_pos, end_pos, animation_duration) ==
    [js EXCEPT !.start_pos = start_pos, !.end_pos = end_pos,
               !.animation_duration = animation_duration, !.completed = FALSE]

\* FallState::animate_straight_fall
FallState_animate_straight_fall(fs, pos) ==
    [fs EXCEPT !.pos = pos, !.fall_type = Straight,
               !.completed = FALSE, !.played_sound = FALSE]

\* FallState::animate_tilt_fall
FallState_animate_tilt_fall(fs, pos, direction) ==
    [fs EXCEPT !.pos = pos, !.fall_type = Tilt(direction), !.tilt_completed = FALSE,
               !.completed = FALSE, !.played_sound = FALSE]

\* a landing test that forgets Current
landed_on_next_only(cur, nxt, landing_pos) ==
    is_landed_on_platform(nxt.shape, nxt.translation, landing_pos)

\* a landing test that takes a touch of the edge for a landing
landed_or_touched(cur, nxt, landing_pos) ==
    \/ is_touched_player(cur.shape, cur.translation, landing_pos, PLAYER_RADIUS)
    \/ is_touched_player(nxt.shape, nxt.translation, landing_pos, PLAYER_RADIUS)

\* the landing test of the resolver: on Current or on Next
landed(cur, nxt, landing_pos) ==
    \/ is_landed_on_platform(cur.shape, cur.translation, landing_pos)
    \/ is_landed_on_platform(nxt.shape, nxt.translation, landing_pos)

\* a scoring test that is given the landing position as the platform position
landed_on_next_misplaced(nxt, landing_pos) ==
    is_landed_on_platform(nxt.shape, landing_pos, landing_pos)

\* the scoring test of the resolver: on Next
landed_on_next(nxt, landing_pos) ==
    is_landed_on_platform(nxt.shape, nxt.translation, landing_pos)

\* a fall_direction that names the travel axis, reversed
fall_direction_current_along_travel(landing_pos, player_translation) ==
    IF landing_pos.x = player_translation.x THEN NEG_Z ELSE NEG_X

\* fall_direction after an edge touch of Current
fall_direction_current(landing_pos, player_translation) ==
    IF landing_pos.x = player_translation.x THEN NEG_X ELSE NEG_Z

\* a fall_direction that tips the player over towards Next
fall_direction_next_inwards(landing_pos, player_translation, next_translation) ==
    IF landing_pos.x = player_translation.x
    THEN IF landing_pos.z < next_translation.z THEN X_AXIS ELSE NEG_X
    ELSE IF landing_pos.x < next_translation.x THEN NEG_Z ELSE Z_AXIS

\* fall_direction after an edge touch of Next
fall_direction_next(landing_pos, player_translation, next_translation) ==
    IF landing_pos.x = player_translation.x
    THEN IF landing_pos.z < next_translation.z THEN NEG_X ELSE X_AXIS
    ELSE IF landing_pos.x < next_translation.x THEN Z_AXIS ELSE NEG_Z

\* a fall armed with edge tests that leave out the player radius
armed_fall_without_radius(fs, cur, nxt, landing_pos, player_translation) ==
    IF is_touched_player(cur.shape, cur.translation, landing_pos, 0)
    THEN FallState_animate_tilt_fall(fs, landing_pos,
             fall_direction_current(landing_pos, player_translation))
    ELSE IF is_touched_player(nxt.shape, nxt.translation, landing_pos, 0)
    THEN FallState_animate_tilt_fall(fs, landing_pos,
             fall_direction_next(landing_pos, player_translation, nxt.translation))
    ELSE FallState_animate_straight_fall(fs, landing_pos)

\* the FallState a failed jump arms
armed_fall(fs, cur, nxt, landing_pos, player_translation) ==
    IF is_touched_player(cur.shape, cur.translation, landing_pos, PLAYER_RADIUS)
    THEN FallState_animate_tilt_fall(fs, landing_pos,
             fall_direction_current(landing_pos, player_translation))
    ELSE IF is_touched_player(nxt.shape, nxt.translation, landing_pos, PLAYER_RADIUS)
    THEN FallState_animate_tilt_fall(fs, landing_pos,
             fall_direction_next(landing_pos, player_translation, nxt.translation))
    ELSE FallState_animate_straight_fall(fs, landing_pos)

\* a promotion that forgets to untag the old Current
promote_commands_keeping_current(current_platform_entity, next_platform_entity) ==
    << [op |-> "remove_next", entity |-> next_platform_entity],
       [op |-> "insert_current", entity |-> next_platform_entity] >>

\* a promotion that tags the wrong entity
promote_commands_on_current(current_platform_entity, next_platform_entity) ==
    << [op |-> "remove_next", entity |-> next_platform_entity],
       [op |-> "insert_current", entity |-> current_platform_entity],
       [op |-> "remove_current", entity |-> current_platform_entity] >>

\* the three marker commands that promote Next to Current
promote_commands(current_platform_entity, next_platform_entity) ==
    << EntityCommand("remove_next", next_platform_entity),
       EntityCommand("insert_current", next_platform_entity),
       EntityCommand("remove_current", current_platform_entity) >>

ScoreUpEvent(landing_pos) ==
    [landing_pos |-> Vec3(landing_pos.x, landing_pos.y + POPUP_RISE, landing_pos.z)]

\* a press test that forgets the animations in progress
press_accepted_any_time(w) == w.buttons.just_pressed

\* the press branch of player_jump is taken
press_accepted(w) ==
    w.buttons.just_pressed /\ w.jump_state.completed /\ w.fall_state.completed

\* the press branch: time.last_update() has age 0; the charge sound starts
press_branch(w) ==
    IF press_accepted(w)
    THEN [w EXCEPT !.accumulator = <<0>>, !.cues = Append(@, "accumulation")]
    ELSE w

\* a release test that reads the charge but not the release of the button
release_accepted_while_held(w) ==
    w.jump_state.completed /\ w.fall_state.completed /\ w.accumulator # <<>>

\* the release branch of player_jump is taken
release_accepted(w) ==
    /\ w.buttons.just_released
    /\ w.jump_state.completed
    /\ w.fall_state.completed
    /\ w.accumulator # <<>>

\* landing_pos of the release branch
landing_pos_of(w) ==
    landing_position(w.platforms[Single(q_current_platform(w.platforms))].translation,
                     w.platforms[Single(q_next_platform(w.platforms))].translation,
                     w.players[Single(DOMAIN w.players)].translation,
                     w.accumulator[1])

\* the release branch once a Next platform is known to exist
resolve_jump(w) ==
    LET current_platform_entity == Single(q_current_platform(w.platforms))
        next_platform_entity == Single(q_next_platform(w.platforms))
        cur == w.platforms[current_platform_entity]
        nxt == w.platforms[next_platform_entity]
        player == w.players[Single(DOMAIN w.players)]
        landing_pos == landing_pos_of(w)
        started == JumpState_animate_jump(w.jump_state, player.translation, landing_pos,
                                          jump_duration(w.accumulator[1]))
        on_next == landed_on_next(nxt, landing_pos)
        resolved ==
            IF landed(cur, nxt, landing_pos)
            THEN IF on_next
                 THEN [w EXCEPT !.jump_state = [started EXCEPT !.falled = FALSE],
                                !.score = @ + 1,
                                !.score_up_queue = Append(@, ScoreUpEvent(landing_pos)),
                                !.commands = @ \o promote_commands(current_platform_entity,
                                                                   next_platform_entity)]
                 ELSE [w EXCEPT !.jump_state = [started EXCEPT !.falled = FALSE]]
            ELSE [w EXCEPT !.jump_state = [started EXCEPT !.falled = TRUE],
                           !.fall_state = armed_fall(w.fall_state, cur, nxt, landing_pos,
                                                     player.translation)]
    IN  [resolved EXCEPT !.accumulator = <<>>,
                         !.cues = Append(@, "accumulation_pause")]

\* a release branch that gives the charge up when no Next exists
release_branch_consuming(w) ==
    IF release_accepted(w)
    THEN IF q_next_platform(w.platforms) # {} THEN resolve_jump(w)
         ELSE [w EXCEPT !.accumulator = <<>>]
    ELSE w

\* the release branch
release_branch(w) ==
    IF release_accepted(w) /\ q_next_platform(w.platforms) # {}
    THEN resolve_jump(w)
    ELSE w

\* player_jump up to its release test
after_press(w) == IF ~prepare_finished(w) THEN w ELSE press_branch(w)

\* player_jump
player_jump(w) ==
    IF ~prepare_finished(w) THEN w ELSE release_branch(press_branch(w))

----------------------------------------------------------------------------
(* Arc flight: player.rs, animate_jump *)

Sign(n) == IF n < 0 THEN -1 ELSE IF n > 0 THEN 1 ELSE 0

\* the sign of sin(PI * swept / duration)
SinSign(swept, duration) ==
    IF swept % duration = 0 THEN 0
    ELSE IF (swept \div duration) % 2 = 0 THEN 1 ELSE -1

\* rotate_axis: X when the X-displacement of the jump is below 0.1, else Z
rotate_axis(js) ==
    IF js.end_pos.x - js.start_pos.x < AXIS_EPSILON THEN X_AXIS ELSE Z_AXIS

\* translate_around(around_point, quat): the sign of the height of start_pos,
\* carried round the midpoint of the jump about rotate_axis by the angle
\* -PI * swept / animation_duration, relative to the rest height.  A rotation
\* about X lifts the Z-offset of start_pos, a rotation about Z its X-offset.
arc_height_sign(js, swept) ==
    LET lever == IF rotate_axis(js) = X_AXIS
                 THEN js.start_pos.z - js.end_pos.z
                 ELSE js.end_pos.x - js.start_pos.x
    IN  Sign(lever) * SinSign(swept, js.animation_duration)

\* clone_player.translation.y < INITIAL_PLAYER_POS.y after one more step
arc_bottom_reached(js, player, dt) == arc_height_sign(js, player.swept + dt) < 0

\* the Transform after a step of the arc: the orbit angle grows (a full turn
\* brings the player back to the same point) and the player spins about its
\* own axis by twice that angle
arc_step(js, player, dt) ==
    LET swept == (player.swept + dt) % (2 * js.animation_duration)
    IN  [player EXCEPT !.swept = swept,
                       !.upright = (swept % js.animation_duration = 0)]

\* an end of the arc that resets the rotation where the player is
arc_landed_in_place(js, player) == [player EXCEPT !.swept = 0, !.upright = TRUE]

\* the Transform when the arc ends: snapped to end_pos, rotation reset
arc_landed(js, player) ==
    [player EXCEPT !.translation = js.end_pos, !.swept = 0, !.upright = TRUE]

animate_jump(w) ==
    IF ~w.jump_state.completed
    THEN LET e == Single(DOMAIN w.players)
         IN  IF arc_bottom_reached(w.jump_state, w.players[e], w.delta)
             THEN [w EXCEPT !.players[e] = arc_landed(w.jump_state, @),
                            !.jump_state.completed = TRUE,
                            !.cues = IF ~w.jump_state.falled THEN Append(@, "success")
                                                             ELSE @]
             ELSE [w EXCEPT !.players[e] = arc_step(w.jump_state, @, w.delta)]
    ELSE w

----------------------------------------------------------------------------
(* Fall state machine: player.rs, animate_fall *)

\* 100 * sin(FRAC_PI_2 * t / QUARTER_TURN), rounded, for t = 0, 2, .. 24
SinTable == <<0, 16, 31, 45, 59, 71, 81, 89, 95, 99, 100, 99, 95>>
TiltSin(t) == SinTable[(t \div 2) + 1]
TiltCos(t) == IF t <= QUARTER_TURN THEN TiltSin(QUARTER_TURN - t)
                                   ELSE -TiltSin(t - QUARTER_TURN)

\* rotate_around(around_point, quat): the point PIVOT_DROP above the pivot,
\* tipped about `direction` by the angle FRAC_PI_2 * t / QUARTER_TURN
tilted_translation(pos, direction, t) ==
    Vec3(pos.x - direction.z * TiltSin(t),
         INITIAL_PLAYER_POS.y - PIVOT_DROP + TiltCos(t),
         pos.z + direction.x * TiltSin(t))

\* a tilt that sinks while it turns
tilt_phase_sinking(w, e) ==
    IF w.players[e].translation.y < INITIAL_PLAYER_POS.y - PIVOT_DROP
    THEN [w EXCEPT !.fall_state.tilt_completed = TRUE]
    ELSE [w EXCEPT !.players[e] =
             [@ EXCEPT !.tilt = @ + w.delta,
                       !.upright = FALSE,
                       !.translation =
                           [tilted_translation(w.fall_state.pos,
                                w.fall_state.fall_type.direction,
                                w.players[e].tilt + w.delta)
                            EXCEPT !.y = @ - FALL_SPEED * w.delta]]]

\* the first phase of a tilt fall
tilt_phase(w, e) ==
    IF w.players[e].translation.y < INITIAL_PLAYER_POS.y - PIVOT_DROP
    THEN [w EXCEPT !.fall_state.tilt_completed = TRUE]
    ELSE [w EXCEPT !.players[e] =
             [@ EXCEPT !.tilt = @ + w.delta,
                       !.upright = FALSE,
                       !.translation = tilted_translation(w.fall_state.pos,
                                           w.fall_state.fall_type.direction,
                                           w.players[e].tilt + w.delta)]]

\* a descent that asks for GameState::GameOver and leaves the fall open
descent_phase_leaving_fall_open(w, e, floor) ==
    IF w.players[e].translation.y < floor
    THEN [w EXCEPT !.next_game_state = <<"GameOver">>]
    ELSE [w EXCEPT !.players[e].translation.y = @ - FALL_SPEED * w.delta]

\* the descent of both fall kinds, down to `floor`
descent_phase(w, e, floor) ==
    IF w.players[e].translation.y < floor
    THEN [w EXCEPT !.fall_state.completed = TRUE,
                   !.next_game_state = <<"GameOver">>]
    ELSE [w EXCEPT !.players[e].translation.y = @ - FALL_SPEED * w.delta]

\* a fall sound that does not record that it has played
fall_sound_unrecorded(w) == [w EXCEPT !.cues = Append(@, "fall")]

\* the fall sound is played once
fall_sound(w) ==
    IF ~w.fall_state.played_sound
    THEN [w EXCEPT !.cues = Append(@, "fall"), !.fall_state.played_sound = TRUE]
    ELSE w

\* an animate_fall that does not wait for the arc
animate_fall_during_arc(w) ==
    IF ~w.fall_state.completed
    THEN LET e == Single(DOMAIN w.players)
             s == fall_sound(w)
         IN  IF s.fall_state.fall_type.kind = "Straight"
             THEN descent_phase(s, e, STRAIGHT_FLOOR)
             ELSE IF ~s.fall_state.tilt_completed
                  THEN tilt_phase(s, e)
                  ELSE descent_phase(s, e, TILT_FLOOR)
    ELSE w

animate_fall(w) ==
    IF ~w.fall_state.completed /\ w.jump_state.completed
    THEN LET e == Single(DOMAIN w.players)
             s == fall_sound(w)
         IN  IF s.fall_state.fall_type.kind = "Straight"
             THEN descent_phase(s, e, STRAIGHT_FLOOR)
             ELSE IF ~s.fall_state.tilt_completed
                  THEN tilt_phase(s, e)
                  ELSE descent_phase(s, e, TILT_FLOOR)
    ELSE w

----------------------------------------------------------------------------
(* Score popups: ui.rs, spawn_score_up_effect *)

\* one "+1" popup per queued event
popups(queue) == [i \in 1..Len(queue) |-> "popup"]

spawn_score_up_effect(w) ==
    IF w.jump_state.completed
    THEN [w EXCEPT !.cues = @ \o popups(w.score_up_queue), !.score_up_queue = <<>>]
    ELSE w

----------------------------------------------------------------------------
(* The frame *)

ButtonsAfter(buttons, event) ==
    CASE event = "none" ->
             [pressed |-> buttons.pressed, just_pressed |-> FALSE, just_released |-> FALSE]
      [] event = "press" ->
             [pressed |-> TRUE, just_pressed |-> TRUE, just_released |-> FALSE]
      [] event = "release" ->
             [pressed |-> FALSE, just_pressed |-> FALSE, just_released |-> TRUE]
      [] event = "click" ->
             [pressed |-> FALSE, just_pressed |-> TRUE, just_released |-> TRUE]

\* the menu buttons on screen in a GameState
MenuButtons(state) ==
    CASE state = "MainMenu" -> {"StartGame"}
      [] state = "GameOver" -> {"RestartGame", "BackToMainMenu"}
      [] OTHER -> {}

\* First and PreUpdate: the clock advances by dt, the mouse events of the frame
\* arrive, and a press on a menu button sets its Interaction to Pressed.  With
\* the Update systems in the order of the tuple an Instant older than MaxCharge
\* is never read by elapsed(): the button is not held, and the next press
\* replaces it.  The age is kept up to MaxCharge.
First(w, dt, event, button) ==
    [w EXCEPT !.delta = dt,
              !.accumulator = IF @ = <<>> THEN <<>> ELSE <<Min(@[1] + dt, MaxCharge)>>,
              !.buttons = ButtonsAfter(@, event),
              !.interaction = button,
              !.cues = <<>>]

\* an OnEnter(GameState::Playing) without reset_score
OnEnterPlaying_without_reset_score(w, shape) ==
    [w EXCEPT !.platforms = setup_first_platform(clear_platforms(@), shape),
              !.players = setup_player(clear_player(@)),
              !.prepare_jump_timer = 0,
              !.cues = Append(@, "start")]

\* OnEnter(GameState::Playing): clear_player, clear_platforms, setup_first_platform,
\* setup_player, reset_score, reset_prepare_jump_timer
OnEnterPlaying(w, shape) ==
    [w EXCEPT !.platforms = setup_first_platform(clear_platforms(@), shape),
              !.players = setup_player(clear_player(@)),
              !.score = 0,
              !.prepare_jump_timer = 0,
              !.cues = Append(@, "start")]

\* OnEnter(GameState::MainMenu): clear_player, clear_platforms
OnEnterMainMenu(w) ==
    [w EXCEPT !.platforms = clear_platforms(@), !.players = clear_player(@)]

\* StateTransition: the pending NextState is entered
StateTransition(w, shape) ==
    IF w.next_game_state = <<>>
    THEN w
    ELSE LET entered == [w EXCEPT !.game_state = w.next_game_state[1],
                                  !.next_game_state = <<>>]
         IN  CASE entered.game_state = "Playing" -> OnEnterPlaying(entered, shape)
               [] entered.game_state = "MainMenu" -> OnEnterMainMenu(entered)
               [] OTHER -> entered

\* click_button: ui.rs
click_button(w) ==
    CASE w.interaction = "StartGame" -> [w EXCEPT !.next_game_state = <<"Playing">>]
      [] w.interaction = "RestartGame" -> [w EXCEPT !.next_game_state = <<"Playing">>]
      [] w.interaction = "BackToMainMenu" -> [w EXCEPT !.next_game_state = <<"MainMenu">>]
      [] OTHER -> w

\* the Update systems that run in GameState::Playing, up to the one named
\* a system runs once, on the world the systems before it have left: outcomes is
\* the set of what it makes of that one world
Run(outcomes) == CHOOSE after \in outcomes : TRUE
BeforeGenerateNextPlatform(w) == Run({prepare_jump(v) : v \in {w}})
BeforePlayerJump(w, draw) ==
    Run({generate_next_platform(v, draw) : v \in {BeforeGenerateNextPlatform(w)}})
BeforeAnimateJump(w, draw) == Run({player_jump(v) : v \in {BeforePlayerJump(w, draw)}})
BeforeAnimateFall(w, draw) == Run({animate_jump(v) : v \in {BeforeAnimateJump(w, draw)}})
BeforeSpawnScoreUp(w, draw) == Run({animate_fall(v) : v \in {BeforeAnimateFall(w, draw)}})
BeforeApplyDeferred(w, draw) ==
    Run({spawn_score_up_effect(v) : v \in {BeforeSpawnScoreUp(w, draw)}})
UpdatePlaying(w, draw) == Run({apply_deferred(v) : v \in {BeforeApplyDeferred(w, draw)}})

\* the world in which the Update schedule of the frame starts
BeforeUpdate(w, in) ==
    Run({StateTransition(v, in.shape) :
            v \in {First(u, in.dt, in.event, in.button) : u \in {w}}})

\* one frame of the app
Frame(w, in) ==
    Run({IF u.game_state = "Playing" THEN UpdatePlaying(u, in.draw) ELSE click_button(u) :
            u \in {BeforeUpdate(w, in)}})

\* the draws of a frame that makes none
NoDraw == CHOOSE draw \in Draws : TRUE

\* the mouse events a frame can get: a held button is released, or released and
\* clicked again within the frame; the menus take single presses
EventsOf(w) ==
    IF w.buttons.pressed THEN {"none", "release", "click"}
    ELSE IF w.game_state = "Playing" THEN {"none", "press", "click"}
    ELSE IF w.next_game_state = <<>> THEN {"none", "press"}
    ELSE {"none"}

\* a press in a menu lands on one of its buttons
ButtonsOf(w, event) ==
    IF w.game_state # "Playing" /\ w.next_game_state = <<>> /\ event = "press"
    THEN MenuButtons(w.game_state)
    ELSE {"None"}

\* the frames that read the random generator: the one that enters Playing draws
\* the shape of the first platform, and a frame of play without a Next draws one
ShapesOf(w) == IF w.next_game_state = <<"Playing">> THEN Shapes ELSE {"Box"}
DrawsOf(w) ==
    IF \/ w.next_game_state = <<"Playing">>
       \/ w.game_state = "Playing" /\ w.next_game_state = <<>>
                                   /\ q_next_platform(w.platforms) = {}
    THEN Draws
    ELSE {NoDraw}

\* the player holds a charge no longer than MaxCharge, lets it go after one of
\* the durations of Charges and starts holding the button only while idle
PlayerAllows(w, dt, event) ==
    LET charging == w.buttons.pressed /\ w.accumulator # <<>>
        age == w.accumulator[1] + dt
    IN  /\ charging /\ event = "none" =>
               \E c \in Charges : age < c /\ c <= MaxCharge
        /\ charging /\ event = "release" => age \in Charges /\ age <= MaxCharge
        /\ event = "press" /\ w.game_state = "Playing" =>
               w.jump_state.completed /\ w.fall_state.completed

\* the inputs a frame can get in the world w
CandidateInputs(w) ==
    UNION { UNION { [dt : {dt}, event : {event}, button : ButtonsOf(w, event),
                     shape : ShapesOf(w), draw : DrawsOf(w)]
                    : event \in {e \in EventsOf(w) : PlayerAllows(w, dt, e)} }
            : dt \in FrameDeltas }

\* the inputs under which the frame is followed: the score, which only a
\* release can raise, stays within MaxScore
InputsOf(w) ==
    {in \in CandidateInputs(w) :
        \/ w.score < MaxScore
        \/ in.event \notin {"release", "click"}
        \/ Frame(w, in).score <= MaxScore}

\* the world w is the next frame boundary
Becomes(w) ==
    /\ game_state' = w.game_state
    /\ next_game_state' = w.next_game_state
    /\ pressed' = w.buttons.pressed
    /\ platforms' = w.platforms
    /\ players' = w.players
    /\ score' = w.score
    /\ accumulator' = w.accumulator
    /\ jump_state' = w.jump_state
    /\ fall_state' = w.fall_state
    /\ score_up_queue' = w.score_up_queue
    /\ prepare_jump_timer' = w.prepare_jump_timer
    /\ UNCHANGED <<probe, verdict, camera, camera_move_state>>

\* a frame in a menu state
MenuFrame ==
    /\ game_state # "Playing"
    /\ \E in \in InputsOf(World) : \E w \in {Frame(World, in)} : Becomes(w)

\* a frame in GameState::Playing
PlayingFrame ==
    /\ game_state = "Playing"
    /\ \E in \in InputsOf(World) : \E w \in {Frame(World, in)} : Becomes(w)

Next == MenuFrame \/ PlayingFrame

Spec == Init /\ [][Next]_vars

----------------------------------------------------------------------------
(* The frames that can follow a frame boundary *)

\* the inputs of the coming frame under which the Update systems of Playing run
PlayingInputs ==
    IF game_state = "Playing" \/ next_game_state = <<"Playing">>
    THEN {in \in InputsOf(World) : BeforeUpdate(World, in).game_state = "Playing"}
    ELSE {}

\* the world player_jump finds in the coming frame under the input `in`
PlayerJumpWorld(in) == BeforePlayerJump(BeforeUpdate(World, in), in.draw)

\* the inputs of the coming frame under which player_jump resolves a jump.  The
\* systems that run before player_jump leave the JumpState, the FallState and
\* the platform entities as the frame boundary has them.
ResolvingInputs ==
    IF jump_state.completed /\ fall_state.completed /\ q_next_platform(platforms) # {}
    THEN {in \in PlayingInputs :
             LET w == PlayerJumpWorld(in)
             IN  /\ in.event \in {"release", "click"}
                 /\ prepare_finished(w)
                 /\ release_accepted(press_branch(w))
                 /\ q_next_platform(w.platforms) # {}}
    ELSE {}

\* the world a frame leaves, as the next frame boundary
Boundary(w) ==
    [w EXCEPT !.buttons = [pressed |-> @.pressed, just_pressed |-> FALSE,
                           just_released |-> FALSE],
              !.delta = 0, !.interaction = "None", !.commands = <<>>, !.cues = <<>>]

idle(w) == w.jump_state.completed /\ w.fall_state.completed

----------------------------------------------------------------------------
(* Charging and releasing *)

\* C1: in every run of player_jump the Accumulator goes from None to Some only
\* when the mouse button was just pressed and JumpState.completed and
\* FallState.completed are both true, and a press that arrives while a jump or a
\* fall is in progress leaves the Accumulator as it was.
C1_ChargeStartsOnlyWhenIdle ==
    \A in \in PlayingInputs :
        LET w == PlayerJumpWorld(in)
            p == after_press(w)
            v == player_jump(w)
        IN  /\ w.accumulator = <<>> /\ (p.accumulator # <<>> \/ v.accumulator # <<>>) =>
                   w.buttons.just_pressed /\ w.jump_state.completed
                                          /\ w.fall_state.completed
            /\ w.buttons.just_pressed /\ ~idle(w) =>
                   p.accumulator = w.accumulator /\ v.accumulator = w.accumulator

\* a press while idle is about to turn the Accumulator from None to Some
C1_Witness ==
    \E in \in PlayingInputs :
        LET w == PlayerJumpWorld(in)
        IN  w.accumulator = <<>> /\ player_jump(w).accumulator # <<>>

\* C2: in every run of player_jump JumpState.completed goes from true to false
\* only when the mouse button was just released, FallState.completed is true and
\* the Accumulator is Some when the release is tested; a release that arrives
\* while a jump or a fall is in progress, or while the Accumulator is None,
\* changes nothing.
C2_JumpStartsOnlyOnChargedRelease ==
    \A in \in PlayingInputs :
        LET w == PlayerJumpWorld(in)
            p == after_press(w)
            v == player_jump(w)
        IN  /\ w.jump_state.completed /\ ~v.jump_state.completed =>
                   w.buttons.just_released /\ w.fall_state.completed
                                           /\ p.accumulator # <<>>
            /\ w.buttons.just_released /\ (~idle(w) \/ p.accumulator = <<>>) => v = p

\* a release of a charge while idle is about to start a jump
C2_Witness ==
    \E in \in PlayingInputs :
        LET w == PlayerJumpWorld(in)
        IN  /\ w.buttons.just_released /\ w.accumulator # <<>>
            /\ w.jump_state.completed /\ ~player_jump(w).jump_state.completed

\* C3: the landing position of every resolved jump is the player's position
\* moved by 3.0 * d (30 length units per time unit of charge) towards +X when
\* Next lies further along X than Current and towards -Z when it lies further
\* along -Z, with the other horizontal coordinate unchanged and the height 1.5
\* (300).
C3_LandingDisplacement ==
    \A in \in ResolvingInputs :
        LET w == PlayerJumpWorld(in)
            p == after_press(w)
            d == p.accumulator[1]
            cur == w.platforms[Single(q_current_platform(w.platforms))].translation
            nxt == w.platforms[Single(q_next_platform(w.platforms))].translation
            player == w.players[Single(DOMAIN w.players)].translation
            landing_pos == player_jump(w).jump_state.end_pos
        IN  /\ d >= 0
            /\ nxt.x > cur.x /\ nxt.z = cur.z =>
                   landing_pos = Vec3(player.x + 30 * d, 300, player.z)
            /\ nxt.x = cur.x /\ nxt.z < cur.z =>
                   landing_pos = Vec3(player.x, 300, player.z - 30 * d)
            /\ (nxt.x > cur.x /\ nxt.z = cur.z) \/ (nxt.x = cur.x /\ nxt.z < cur.z)

\* a charge of 0.3 s is about to be resolved along -Z from a position off the
\* centre of Current
C3_Witness ==
    \E in \in ResolvingInputs :
        LET w == PlayerJumpWorld(in)
            cur == w.platforms[Single(q_current_platform(w.platforms))].translation
            nxt == w.platforms[Single(q_next_platform(w.platforms))].translation
            player == w.players[Single(DOMAIN w.players)].translation
        IN  /\ nxt.z < cur.z
            /\ player.z # cur.z
            /\ w.accumulator = <<6>>
            /\ player_jump(w).jump_state.end_pos = Vec3(player.x, 300, player.z - 180)

----------------------------------------------------------------------------
(* Classification of a resolved jump *)

\* the Current and the Next platform player_jump finds
CurrentOf(w) == w.platforms[Single(q_current_platform(w.platforms))]
NextOf(w) == w.platforms[Single(q_next_platform(w.platforms))]

\* C4: every resolved jump leaves JumpState.falled false and the FallState
\* untouched exactly when its landing position is landed on Current or landed
\* on Next; every other resolved jump leaves falled true and a fall armed
\* (FallState not completed, at the landing position, its sound not yet played).
C4_SuccessIffLanded ==
    \A in \in ResolvingInputs :
        LET w == PlayerJumpWorld(in)
            v == player_jump(w)
            landing_pos == v.jump_state.end_pos
            on == \/ is_landed_on_platform(CurrentOf(w).shape,
                                           CurrentOf(w).translation, landing_pos)
                  \/ is_landed_on_platform(NextOf(w).shape,
                                           NextOf(w).translation, landing_pos)
        IN  /\ on <=> (~v.jump_state.falled /\ v.fall_state = w.fall_state)
            /\ ~on => /\ v.jump_state.falled
                      /\ ~v.fall_state.completed
                      /\ ~v.fall_state.played_sound
                      /\ v.fall_state.pos = landing_pos

\* a jump that lands on neither platform is about to be resolved as a failure
C4_Witness ==
    \E in \in ResolvingInputs :
        LET w == PlayerJumpWorld(in)
            v == player_jump(w)
        IN  /\ ~is_landed_on_platform(CurrentOf(w).shape, CurrentOf(w).translation,
                                      v.jump_state.end_pos)
            /\ ~is_landed_on_platform(NextOf(w).shape, NextOf(w).translation,
                                      v.jump_state.end_pos)
            /\ v.jump_state.falled /\ ~v.fall_state.completed

\* C5: every failed jump arms a Tilt fall exactly when its landing position is
\* touched, with the probe radius 0.2 (40), by Current or by Next, and a
\* Straight fall otherwise; and with Current a Box at (0, 0.5, 0), Next a Box at
\* (3, 0.5, 0), the player at (0, 1.5, 0) and a charge of 0.5 s (10) the jump
\* fails with a Straight fall.
C5_TiltIffTouched ==
    \A in \in ResolvingInputs :
        LET w == PlayerJumpWorld(in)
            p == after_press(w)
            v == player_jump(w)
            landing_pos == v.jump_state.end_pos
            touched == \/ is_touched_player(CurrentOf(w).shape,
                                            CurrentOf(w).translation, landing_pos, 40)
                       \/ is_touched_player(NextOf(w).shape,
                                            NextOf(w).translation, landing_pos, 40)
        IN  /\ v.jump_state.falled =>
                   /\ touched <=> v.fall_state.fall_type.kind = "Tilt"
                   /\ ~touched <=> v.fall_state.fall_type.kind = "Straight"
            /\ /\ CurrentOf(w) = Platform(Vec3(0, 100, 0), "Box", TRUE, FALSE)
               /\ NextOf(w) = Platform(Vec3(600, 100, 0), "Box", FALSE, TRUE)
               /\ w.players[Single(DOMAIN w.players)].translation = Vec3(0, 300, 0)
               /\ p.accumulator = <<10>>
               => v.jump_state.falled /\ v.fall_state.fall_type.kind = "Straight"

\* the charge of 0.5 s between the two Boxes is about to be resolved as a
\* failure with a Straight fall
C5_Witness ==
    \E in \in ResolvingInputs :
        LET w == PlayerJumpWorld(in)
            v == player_jump(w)
        IN  /\ CurrentOf(w) = Platform(Vec3(0, 100, 0), "Box", TRUE, FALSE)
            /\ NextOf(w) = Platform(Vec3(600, 100, 0), "Box", FALSE, TRUE)
            /\ w.players[Single(DOMAIN w.players)].translation = Vec3(0, 300, 0)
            /\ w.accumulator = <<10>>
            /\ v.jump_state.falled /\ v.fall_state.fall_type = Straight

\* C6: a resolved jump that lands on Next adds exactly 1 to the Score, appends
\* exactly one ScoreUpEvent to the ScoreUpQueue and, when the frame ends, has
\* made the Next entity Current and no longer Next; a resolved jump that lands on
\* Current and not on Next is a success that leaves the Score, the ScoreUpQueue
\* and the markers of every platform as they were.
C6_ScoreAndPromotion ==
    \A in \in ResolvingInputs :
        LET w == PlayerJumpWorld(in)
            v == player_jump(w)
            a == Frame(World, in)
            landing_pos == v.jump_state.end_pos
            n == Single(q_next_platform(w.platforms))
            on_next == is_landed_on_platform(NextOf(w).shape, NextOf(w).translation,
                                             landing_pos)
            on_current == is_landed_on_platform(CurrentOf(w).shape,
                                                CurrentOf(w).translation, landing_pos)
        IN  /\ on_next =>
                   /\ v.score = w.score + 1
                   /\ Len(v.score_up_queue) = Len(w.score_up_queue) + 1
                   /\ SubSeq(v.score_up_queue, 1, Len(w.score_up_queue))
                          = w.score_up_queue
                   /\ a.platforms[n].current /\ ~a.platforms[n].next
            /\ on_current /\ ~on_next =>
                   /\ ~v.jump_state.falled
                   /\ v.score = w.score
                   /\ v.score_up_queue = w.score_up_queue
                   /\ v.commands = w.commands
                   /\ a.platforms = w.platforms

\* a jump that lands on Next is about to be resolved
C6_Witness ==
    \E in \in ResolvingInputs :
        LET w == PlayerJumpWorld(in)
            v == player_jump(w)
        IN  /\ is_landed_on_platform(NextOf(w).shape, NextOf(w).translation,
                                     v.jump_state.end_pos)
            /\ v.score = w.score + 1
            /\ Frame(World, in).platforms[Single(q_next_platform(w.platforms))].current

----------------------------------------------------------------------------
(* Score and platform markers *)

\* C7: every step that enters GameState::Playing, from MainMenu or from
\* GameOver, leaves the Score 0, and every step within Playing leaves the Score
\* unchanged or greater by exactly 1.
C7_ScoreResetAndMonotone ==
    [][ /\ game_state # "Playing" /\ game_state' = "Playing" => score' = 0
        /\ game_state = "Playing" /\ game_state' = "Playing" =>
               score' = score \/ score' = score + 1 ]_vars

\* Playing is about to be entered from GameOver with a Score above 0 left by
\* the session before
C7_Witness ==
    /\ game_state = "GameOver"
    /\ score > 0
    /\ \E in \in InputsOf(World) :
           Frame(World, in).game_state = "Playing" /\ Frame(World, in).score = 0

\* C8: at every frame boundary in GameState::Playing exactly one platform has
\* the CurrentPlatform marker, at most one has the NextPlatform marker and none
\* has both.
C8_OneCurrentAtMostOneNext ==
    game_state = "Playing" =>
        /\ Cardinality(q_current_platform(platforms)) = 1
        /\ Cardinality(q_next_platform(platforms)) <= 1
        /\ q_current_platform(platforms) \cap q_next_platform(platforms) = {}

\* a frame boundary after a promotion and the spawn that follows it: three
\* platforms, the second one Current and the third one Next
C8_Witness ==
    /\ game_state = "Playing"
    /\ Len(platforms) = 3
    /\ q_current_platform(platforms) = {2}
    /\ q_next_platform(platforms) = {3}

\* C9: when a jump that lands on Next is resolved, the frame ends with the
\* entity that was Next as the only Current platform (the old Current has lost
\* the marker), and every frame that follows it ends with a NextPlatform entity
\* that did not exist before and with the same Current; and no frame boundary
\* has two Current platforms.
C9_PromotionThenNewNext ==
    /\ Cardinality(q_current_platform(platforms)) <= 1
    /\ \A in \in ResolvingInputs :
           LET w == PlayerJumpWorld(in)
               c == Single(q_current_platform(w.platforms))
               n == Single(q_next_platform(w.platforms))
               a == Boundary(Frame(World, in))
           IN  player_jump(w).score = w.score + 1 =>
                   /\ q_current_platform(a.platforms) = {n}
                   /\ ~a.platforms[c].current
                   /\ a.platforms[n].translation = w.platforms[n].translation
                   /\ a.platforms[n].shape = w.platforms[n].shape
                   /\ InputsOf(a) # {}
                   /\ \A in2 \in InputsOf(a) :
                          LET b == Frame(a, in2)
                          IN  /\ b.game_state = "Playing"
                              /\ q_current_platform(b.platforms) = {n}
                              /\ \E e \in q_next_platform(b.platforms) :
                                     e \notin DOMAIN w.platforms

\* a jump that lands on Next is about to be resolved, and the frame after it
\* spawns a new Next
C9_Witness ==
    \E in \in ResolvingInputs :
        LET w == PlayerJumpWorld(in)
            a == Boundary(Frame(World, in))
        IN  /\ player_jump(w).score = w.score + 1
            /\ q_next_platform(a.platforms) = {}
            /\ \E in2 \in InputsOf(a) : q_next_platform(Frame(a, in2).platforms) # {}

\* C10: a run of generate_next_platform that finds a Next platform issues no
\* command and changes nothing; and once the commands of a run are applied, a
\* second and a third run, whatever they draw, leave the platforms as the first
\* run left them.
C10_GenerateIdempotent ==
    \A in \in PlayingInputs :
        LET w == BeforeGenerateNextPlatform(BeforeUpdate(World, in))
            once == apply_deferred(generate_next_platform(w, in.draw))
        IN  /\ q_next_platform(w.platforms) # {} =>
                   /\ generate_next_platform(w, in.draw) = w
                   /\ once.platforms = w.platforms
            /\ \A d2, d3 \in Draws :
                   LET twice == apply_deferred(generate_next_platform(once, d2))
                       thrice == apply_deferred(generate_next_platform(twice, d3))
                   IN  twice.platforms = once.platforms
                       /\ thrice.platforms = once.platforms

\* generate_next_platform is about to run without a Next after a promotion: the
\* first run spawns one, a second run spawns nothing
C10_Witness ==
    \E in \in PlayingInputs :
        LET w == BeforeGenerateNextPlatform(BeforeUpdate(World, in))
            once == apply_deferred(generate_next_platform(w, in.draw))
        IN  /\ Len(w.platforms) = 2
            /\ q_next_platform(w.platforms) = {}
            /\ Len(once.platforms) = 3
            /\ \A d2 \in Draws :
                   apply_deferred(generate_next_platform(once, d2)).platforms
                       = once.platforms

----------------------------------------------------------------------------
(* Release without a Next platform *)

\* C11: when player_jump tests a release while idle with the Accumulator Some
\* and no NextPlatform entity exists, it leaves the Accumulator Some with the
\* same Instant, leaves the JumpState and the FallState as they were, leaves the
\* Score and the ScoreUpQueue as they were and issues no command; when the frame
\* ends every platform that existed has the markers it had.
C11_NoNextKeepsCharge ==
    \A in \in PlayingInputs :
        LET w == PlayerJumpWorld(in)
            p == after_press(w)
            v == player_jump(w)
            a == Frame(World, in)
        IN  /\ prepare_finished(w)
            /\ w.buttons.just_released /\ idle(w)
            /\ p.accumulator # <<>>
            /\ q_next_platform(w.platforms) = {}
            => /\ v.accumulator = p.accumulator
               /\ v.jump_state = w.jump_state
               /\ v.fall_state = w.fall_state
               /\ v.score = w.score
               /\ v.score_up_queue = w.score_up_queue
               /\ v.commands = w.commands
               /\ SubSeq(a.platforms, 1, Len(w.platforms)) = w.platforms

\* a press and its release are about to be tested before the first Next exists
C11_Witness ==
    \E in \in PlayingInputs :
        LET w == PlayerJumpWorld(in)
        IN  /\ prepare_finished(w)
            /\ w.buttons.just_released /\ idle(w)
            /\ after_press(w).accumulator # <<>>
            /\ q_next_platform(w.platforms) = {}
            /\ player_jump(w).accumulator = <<0>>

----------------------------------------------------------------------------
(* Frames keep coming *)

\* App::run drives the schedules frame after frame for as long as the window is
\* open: a frame of play that changes something is not put off forever
FairSpec == Spec /\ WF_vars(PlayingFrame)

\* C12: every jump arc that has started completes: whenever JumpState.completed
\* is false, a later frame sets it to true again.
C12_ArcEventuallyCompletes ==
    (jump_state.completed = FALSE) ~> (jump_state.completed = TRUE)

----------------------------------------------------------------------------
(* Falls and GameOver *)

\* the arc of a failed jump has completed and its fall has not
falling == jump_state.completed /\ jump_state.falled /\ ~fall_state.completed

\* no session is being played: a menu is shown or a state transition is pending
outside_session == game_state # "Playing" \/ next_game_state # <<>>

AnimateFallWorld(in) == BeforeAnimateFall(BeforeUpdate(World, in), in.draw)

\* C14: in every frame in which animate_fall changes the player or emits the
\* fall cue, JumpState.completed and JumpState.falled are true when it runs;
\* while JumpState.completed is false animate_fall changes nothing, whatever the
\* FallState holds.
C14_FallOnlyAfterArc ==
    \A in \in PlayingInputs :
        LET w == AnimateFallWorld(in)
            v == animate_fall(w)
        IN  /\ v.players # w.players \/ v.cues # w.cues
               => w.jump_state.completed /\ w.jump_state.falled
            /\ ~w.jump_state.completed => v = w

\* one frame time leaves the arc of a failed jump in flight with the fall armed,
\* another ends the arc and lets animate_fall emit the cue in the same frame
C14_Witness ==
    /\ \E in \in PlayingInputs :
           LET w == AnimateFallWorld(in)
           IN  ~w.jump_state.completed /\ ~w.fall_state.completed
    /\ \E in \in PlayingInputs :
           LET w == AnimateFallWorld(in)
           IN  /\ w.jump_state.completed /\ w.jump_state.falled
               /\ animate_fall(w).cues = Append(w.cues, "fall")

\* the fall cues among the cues of a frame
FallCues(cues) == Cardinality({i \in DOMAIN cues : cues[i] = "fall"})

\* C15: the fall cue is emitted exactly once per fall and never for a successful
\* jump.  FallState.played_sound tells the cues of the current fall: a frame of
\* play emits at most one fall cue, and emits one exactly when played_sound
\* ends true without having been true since the fall was armed; played_sound
\* returns to false only in a frame that arms a fall, which emits none; a fall
\* completes only with played_sound true; and a frame that emits the cue has
\* JumpState.falled true.
C15_FallCueOncePerFall ==
    \A in \in PlayingInputs :
        LET b == World
            a == Frame(World, in)
            n == FallCues(a.cues)
            armed == b.fall_state.completed /\ ~a.fall_state.completed
        IN  /\ n <= 1
            /\ n = 1 <=> /\ a.fall_state.played_sound
                         /\ ~b.fall_state.played_sound \/ armed
            /\ armed => n = 0 /\ ~a.fall_state.played_sound
            /\ b.fall_state.played_sound /\ ~a.fall_state.played_sound => armed
            /\ ~b.fall_state.completed /\ a.fall_state.completed
                   => a.fall_state.played_sound
            /\ n = 1 => a.jump_state.falled /\ a.jump_state.completed

\* a fall that has already sounded goes on for another frame in silence
C15_Witness ==
    \E in \in PlayingInputs :
        LET a == Frame(World, in)
        IN  /\ fall_state.played_sound /\ ~fall_state.completed
            /\ ~a.fall_state.completed
            /\ a.players # players
            /\ FallCues(a.cues) = 0

----------------------------------------------------------------------------
(* The PlatformShape tests on their own: platform.rs *)

\* the offsets, heights and radii the tests are called with: around the half
\* extent 0.75, around 0.75 + r, the centre, and both sides of it
ProbeOffsets == {0 - (BOX_HALF + PLAYER_RADIUS) - 1, 0 - (BOX_HALF + PLAYER_RADIUS),
                 0 - BOX_HALF - 1, 0 - BOX_HALF, 1 - BOX_HALF, 0,
                 BOX_HALF - 1, BOX_HALF, BOX_HALF + 1,
                 BOX_HALF + PLAYER_RADIUS - 1, BOX_HALF + PLAYER_RADIUS,
                 BOX_HALF + PLAYER_RADIUS + 1}
ProbeHeights == {TILT_FLOOR, REST_HEIGHT}
ProbeRadii == {0, 1, PLAYER_RADIUS}
ProbePlatforms == {Vec3(0, PLATFORM_Y, 0), Vec3(MIN_DISTANCE, PLATFORM_Y, 0 - MAX_DISTANCE)}

\* the calls that are made
Probes ==
    {[shape |-> shape, platform_pos |-> p,
      landing_pos |-> Vec3(p.x + dx, y, p.z + dz), player_radius |-> r] :
        shape \in Shapes, p \in ProbePlatforms, dx \in ProbeOffsets,
        dz \in ProbeOffsets, y \in ProbeHeights, r \in ProbeRadii}

\* a call is about to be made
GeometryInit ==
    Startup /\ probe \in {<<call>> : call \in Probes} /\ verdict = <<>> /\ Cameras

\* the call is made: both tests, and the touch test with radius 0
Call ==
    /\ probe # <<>> /\ verdict = <<>>
    /\ verdict' =
           <<[landed |-> is_landed_on_platform(probe[1].shape, probe[1].platform_pos,
                                               probe[1].landing_pos),
              touched |-> is_touched_player(probe[1].shape, probe[1].platform_pos,
                                            probe[1].landing_pos, probe[1].player_radius),
              touched_bare |-> is_touched_player(probe[1].shape, probe[1].platform_pos,
                                                 probe[1].landing_pos, 0)]>>
    /\ UNCHANGED <<app, probe, camera, camera_move_state>>

GeometrySpec == GeometryInit /\ [][Call]_vars

\* C16: for every shape, platform position and landing position the touch test
\* with radius 0 returns what the landing test returns, and with a radius above
\* 0 a position that is landed on is touched.
C16_TouchExtendsLanding ==
    verdict # <<>> =>
        /\ verdict[1].touched_bare = verdict[1].landed
        /\ probe[1].player_radius > 0 /\ verdict[1].landed => verdict[1].touched

\* a position on the edge of the footprint has been tested: not landed on, not
\* touched with radius 0, touched with the radius it was called with
C16_Witness ==
    /\ verdict # <<>>
    /\ probe[1].landing_pos.x - probe[1].platform_pos.x = BOX_HALF
    /\ probe[1].landing_pos.z = probe[1].platform_pos.z
    /\ probe[1].player_radius > 0
    /\ ~verdict[1].landed /\ ~verdict[1].touched_bare /\ verdict[1].touched

\* C17: the landing test is true exactly when both the x and the z offset of
\* the landing position from the platform are below 0.75 in absolute value, for
\* the Box and the Cylinder alike and whatever the heights; an offset of exactly
\* 0.75 is not landed on, and an offset of exactly 0.75 + r is not touched.
C17_SquareFootprint ==
    verdict # <<>> =>
        LET dx == Abs(probe[1].landing_pos.x - probe[1].platform_pos.x)
            dz == Abs(probe[1].landing_pos.z - probe[1].platform_pos.z)
        IN  /\ verdict[1].landed <=> dx < BOX_HALF /\ dz < BOX_HALF
            /\ dx = BOX_HALF \/ dz = BOX_HALF => ~verdict[1].landed
            /\ \/ dx = BOX_HALF + probe[1].player_radius
               \/ dz = BOX_HALF + probe[1].player_radius
               => ~verdict[1].touched

\* a Cylinder has been tested near the corner of its square footprint, beyond
\* its circle, and is landed on
C17_Witness ==
    /\ verdict # <<>>
    /\ probe[1].shape = "Cylinder"
    /\ probe[1].landing_pos.x - probe[1].platform_pos.x = BOX_HALF - 1
    /\ probe[1].landing_pos.z - probe[1].platform_pos.z = 1 - BOX_HALF
    /\ probe[1].landing_pos.y = TILT_FLOOR
    /\ verdict[1].landed

----------------------------------------------------------------------------
(* The camera tracker: camera.rs, move_camera *)

\* how far from INITIAL_PLAYER_POS the player is followed, along x plus along
\* -z, and how far from its destination the camera is followed, in length units
MaxTravel == 700
MaxCameraLag == 1000

Plus(a, b) == Vec3(a.x + b.x, a.y + b.y, a.z + b.z)
Minus(a, b) == Vec3(a.x - b.x, a.y - b.y, a.z - b.z)
Divided(v, k) == Vec3(v.x \div k, v.y \div k, v.z \div k)
Divisible(v, k) == v.x % k = 0 /\ v.y % k = 0 /\ v.z % k = 0

\* the square of Vec3::length, on which distances are compared
LengthSquared(v) == v.x * v.x + v.y * v.y + v.z * v.z

\* what move_camera reads and writes
CameraWorld ==
    [players |-> players, jump_state |-> jump_state, fall_state |-> fall_state,
     camera |-> camera, camera_move_state |-> camera_move_state]

\* camera_destination
camera_destination(w) ==
    Scaled(Plus(INITIAL_CAMERA_POS, w.players[Single(DOMAIN w.players)].translation), FINE)

\* a test of the player's movement that takes any movement at all
player_moved_at_all(w) ==
    w.camera_move_state.player_pos # w.players[Single(DOMAIN w.players)].translation

\* the player is more than 0.1 away from where the step was last computed
player_moved(w) ==
    LengthSquared(Minus(w.camera_move_state.player_pos,
                        w.players[Single(DOMAIN w.players)].translation))
        > MOVE_EPSILON * MOVE_EPSILON

\* CameraMoveState after the test of the player's movement
tracked(w) ==
    IF player_moved(w)
    THEN [step |-> Divided(Minus(camera_destination(w), w.camera), STEP_DIVISOR),
          player_pos |-> w.players[Single(DOMAIN w.players)].translation]
    ELSE w.camera_move_state

\* the camera is farther from its destination than the step is long
step_applies(w) ==
    LengthSquared(Minus(w.camera, camera_destination(w)))
        > LengthSquared(tracked(w).step)

\* a move_camera that waits for the arc only
move_camera_during_fall(w) ==
    IF w.jump_state.completed
    THEN [w EXCEPT !.camera_move_state = tracked(w),
                   !.camera = IF step_applies(w) THEN Plus(@, tracked(w).step) ELSE @]
    ELSE w

move_camera(w) ==
    IF w.jump_state.completed /\ w.fall_state.completed
    THEN [w EXCEPT !.camera_move_state = tracked(w),
                   !.camera = IF step_applies(w) THEN Plus(@, tracked(w).step) ELSE @]
    ELSE w

\* the jumps the player makes while the camera is followed: a tap of 1/60 s, a
\* hop that stays on the Current platform, a jump that falls into the gap and a
\* jump that lands on the Next platform, along x or along -z.  The arc of a tap
\* along x never ends and is left out.
Hops ==
    {[by |-> 10, falled |-> FALSE, along_x |-> FALSE]}
    \cup [by : {60, 600}, falled : {FALSE}, along_x : BOOLEAN]
    \cup [by : {300}, falled : {TRUE}, along_x : BOOLEAN]

\* landing_pos of the release branch for a displacement hop.by
hop_landing(translation, hop) ==
    IF hop.along_x
    THEN Vec3(translation.x + hop.by, INITIAL_PLAYER_POS.y, translation.z)
    ELSE Vec3(translation.x, INITIAL_PLAYER_POS.y, translation.z - hop.by)

\* the first frame of play of the first session
CameraInit ==
    /\ game_state = "Playing" /\ next_game_state = <<>> /\ pressed = FALSE
    /\ platforms = setup_first_platform(<<>>, "Box")
    /\ players = setup_player(<<>>)
    /\ score = 0 /\ accumulator = <<>>
    /\ jump_state = JumpStateDefault /\ fall_state = FallStateDefault
    /\ score_up_queue = <<>> /\ prepare_jump_timer = 0
    /\ probe = <<>> /\ verdict = <<>>
    /\ Cameras

\* what the camera's frames leave alone besides the player and the two states
offstage == <<game_state, next_game_state, pressed, platforms, score, accumulator,
              score_up_queue, prepare_jump_timer, probe, verdict>>

\* a frame in which the release branch of player_jump starts a jump.  The player
\* is followed when they wait for the camera: move_camera has run in the frames
\* since the landing and no longer changes anything.
Release ==
    /\ jump_state.completed /\ fall_state.completed
    /\ move_camera(CameraWorld) = CameraWorld
    /\ \E hop \in Hops :
           LET translation == players[Single(DOMAIN players)].translation
               landing_pos == hop_landing(translation, hop)
           IN  /\ landing_pos.x - landing_pos.z <= MaxTravel
               /\ jump_state' =
                      [JumpState_animate_jump(jump_state, translation, landing_pos,
                                              MIN_JUMP_DURATION)
                          EXCEPT !.falled = hop.falled]
               /\ fall_state' =
                      IF hop.falled
                      THEN FallState_animate_straight_fall(fall_state, landing_pos)
                      ELSE fall_state
    /\ UNCHANGED <<players, camera, camera_move_state, offstage>>

\* the frame in which animate_jump ends the arc
ArcEnds ==
    /\ ~jump_state.completed
    /\ players' = [players EXCEPT ![Single(DOMAIN players)].translation =
                                      jump_state.end_pos]
    /\ jump_state' = [jump_state EXCEPT !.completed = TRUE]
    /\ UNCHANGED <<fall_state, camera, camera_move_state, offstage>>

\* the fall ends, GameOver is shown and the session is restarted: the player is
\* spawned anew; the camera and the CameraMoveState are what they were
FallEnds ==
    /\ jump_state.completed /\ ~fall_state.completed
    /\ fall_state' = [fall_state EXCEPT !.completed = TRUE, !.played_sound = TRUE]
    /\ players' = setup_player(clear_player(players))
    /\ UNCHANGED <<jump_state, camera, camera_move_state, offstage>>

\* the step of a frame is followed when it is a whole number of camera units and
\* leaves the camera within MaxCameraLag of its destination
followed(w) ==
    /\ player_moved(w) => Divisible(Minus(camera_destination(w), w.camera), STEP_DIVISOR)
    /\ LengthSquared(Minus(move_camera(w).camera, camera_destination(w)))
           <= MaxCameraLag * FINE * MaxCameraLag * FINE

\* move_camera in a frame of play
CameraFrame ==
    /\ followed(CameraWorld)
    /\ camera' = move_camera(CameraWorld).camera
    /\ camera_move_state' = move_camera(CameraWorld).camera_move_state
    /\ UNCHANGED <<players, jump_state, fall_state, offstage>>

CameraNext == Release \/ ArcEnds \/ FallEnds \/ CameraFrame

CameraSpec == CameraInit /\ [][CameraNext]_vars

\* the square of the camera's distance to its destination
lag(w) == LengthSquared(Minus(w.camera, camera_destination(w)))

\* C18: in an idle frame move_camera brings the camera strictly nearer to its
\* destination whenever it applies the step, that is while the camera is farther
\* from the destination than the step is long, and leaves the camera where it
\* is otherwise.
C18_CameraConverges ==
    LET w == CameraWorld
        a == move_camera(w)
    IN  w.jump_state.completed /\ w.fall_state.completed =>
            /\ step_applies(w) => lag(a) < lag(w)
            /\ ~step_applies(w) => a.camera = w.camera /\ lag(a) = lag(w)

\* the camera is being carried away from its destination by a step that was
\* computed for another position of the player
C18_Runaway ==
    LET w == CameraWorld
        a == move_camera(w)
    IN  /\ w.jump_state.completed /\ w.fall_state.completed
        /\ step_applies(w) /\ lag(a) > lag(w)
        /\ step_applies(a) /\ lag(move_camera(a)) > lag(a)

\* C19: move_camera leaves the camera's translation, the stored step and the
\* stored player position as they are in every frame in which
\* JumpState.completed or FallState.completed is false.
C19_CameraWaits ==
    LET w == CameraWorld
        a == move_camera(w)
    IN  ~w.jump_state.completed \/ ~w.fall_state.completed =>
            /\ a.camera = w.camera
            /\ a.camera_move_state = w.camera_move_state

\* the arc of a failed jump has ended away from where the step was computed,
\* the fall is still open, and the camera is not at its destination
C19_Witness ==
    /\ jump_state.completed /\ ~fall_state.completed
    /\ player_moved(CameraWorld)
    /\ camera # camera_destination(CameraWorld)
    /\ move_camera(CameraWorld) = CameraWorld

----------------------------------------------------------------------------
(* Platform entities in the world *)

\* the platforms that carry neither marker
untagged(ps) == {e \in DOMAIN ps : ~ps[e].current /\ ~ps[e].next}

\* C20 as stated: during play at most two platform entities exist.
C20_AtMostTwoPlatforms == game_state = "Playing" => Len(platforms) <= 2

\* C20 as the code has it: during play at most two platforms carry a marker,
\* the Current one and at most one Next, and the world holds besides them one
\* platform without a marker for every point of the Score: the former Current
\* platforms of the session, which stay until the platforms are cleared.
C20_PlatformsGrowWithScore ==
    game_state = "Playing" =>
        /\ Cardinality(DOMAIN platforms \ untagged(platforms)) <= 2
        /\ Cardinality(untagged(platforms)) = score
        /\ Len(platforms) <= 2 + score

\* play goes on after a landing on Next: the former Current is still in the
\* world beside the new Current and the new Next
C20_Witness ==
    /\ game_state = "Playing" /\ next_game_state = <<>>
    /\ score = 1
    /\ untagged(platforms) = {1}
    /\ Len(platforms) = 3
    /\ jump_state.completed /\ fall_state.completed


----------------------------------------------------------------------------
(* Session start *)

\* C21: the OnEnter schedule of GameState::Playing, entered from MainMenu or
\* from GameOver, leaves no platform and no player of the session before: the
\* Update systems of the entering frame find exactly one platform, Current and
\* not Next, at (0, 0.5, 0) = (0, 100, 0), and exactly one player, upright at
\* (0, 1.5, 0) = (0, 300, 0); the OnEnter schedule of GameState::MainMenu leaves
\* no platform and no player.
C21_SessionStartsFresh ==
    \A in \in InputsOf(World) :
        LET w == BeforeUpdate(World, in)
        IN  /\ next_game_state = <<"Playing">> =>
                   /\ w.game_state = "Playing"
                   /\ clear_platforms(platforms) = <<>>
                   /\ clear_player(players) = <<>>
                   /\ Len(w.platforms) = 1
                   /\ w.platforms[1].translation = Vec3(0, 100, 0)
                   /\ w.platforms[1].current /\ ~w.platforms[1].next
                   /\ q_next_platform(w.platforms) = {}
                   /\ Len(w.players) = 1
                   /\ w.players[1].translation = Vec3(0, 300, 0)
                   /\ w.players[1].upright
            /\ next_game_state = <<"MainMenu">> =>
                   /\ w.game_state = "MainMenu"
                   /\ w.platforms = <<>>
                   /\ w.players = <<>>

\* a restart from GameOver is pending after a session that scored: three
\* platforms and a fallen player are in the world
C21_Witness ==
    /\ game_state = "GameOver" /\ next_game_state = <<"Playing">>
    /\ Len(platforms) = 3
    /\ Len(players) = 1
    /\ players[1].translation.y < TILT_FLOOR
    /\ \A in \in InputsOf(World) : Len(BeforeUpdate(World, in).platforms) = 1


\* C22: in every frame that enters GameState::Playing, from MainMenu or from
\* GameOver, the Update systems find the Accumulator None, JumpState.completed
\* and FallState.completed true and the ScoreUpQueue empty, and a press that
\* player_jump tests in that frame is accepted and starts a charge of age 0.
\* None of the four is reset by OnEnter(GameState::Playing): they are what the
\* session before left.
C22_SessionStartsIdle ==
    \A in \in InputsOf(World) :
        next_game_state = <<"Playing">> =>
            LET w == BeforeUpdate(World, in)
                j == PlayerJumpWorld(in)
            IN  /\ w.game_state = "Playing"
                /\ w.accumulator = <<>>
                /\ w.jump_state.completed
                /\ w.fall_state.completed
                /\ w.score_up_queue = <<>>
                /\ j.buttons.just_pressed /\ prepare_finished(j) =>
                       press_accepted(j) /\ after_press(j).accumulator = <<0>>


----------------------------------------------------------------------------
(* The order of the Update systems *)

\* main.rs adds the Update systems of GameState::Playing as one tuple and
\* orders none of player_jump, animate_jump, animate_fall and
\* spawn_score_up_effect against another: the schedule may run them in the
\* order of the tuple, as Frame does, or in another.  Here player_jump runs
\* after the two animations.
UpdatePlayingJumpLast(w, draw) ==
    Run({apply_deferred(v6) : v6 \in {spawn_score_up_effect(v5) : v5 \in
        {player_jump(v4) : v4 \in {animate_fall(v3) : v3 \in
        {animate_jump(v2) : v2 \in {generate_next_platform(v1, draw) : v1 \in
        {prepare_jump(v0) : v0 \in {w}}}}}}}})

\* one frame of the app in that order
FrameJumpLast(w, in) ==
    Run({IF u.game_state = "Playing" THEN UpdatePlayingJumpLast(u, in.draw)
                                     ELSE click_button(u) :
            u \in {BeforeUpdate(w, in)}})

\* the inputs under which such a frame is followed
InputsJumpLast(w) ==
    {in \in CandidateInputs(w) :
        \/ w.score < MaxScore
        \/ in.event \notin {"release", "click"}
        \/ FrameJumpLast(w, in).score <= MaxScore}

\* what OnEnter(GameState::Playing) does not reset is not as the app
\* constructed it
leftover ==
    \/ accumulator # <<>>
    \/ ~jump_state.completed
    \/ ~fall_state.completed
    \/ score_up_queue # <<>>

\* a behaviour is followed up to a session start that finds a leftover
Followed == ~(next_game_state = <<"Playing">> /\ leftover)

\* a frame in the order of the tuple
OrderedFrame == Followed /\ Next

\* a frame of play in which player_jump runs after the animations
ReorderedFrame ==
    /\ Followed
    /\ game_state = "Playing"
    /\ \E in \in InputsJumpLast(World) : \E w \in {FrameJumpLast(World, in)} : Becomes(w)

ScheduleNext == OrderedFrame \/ ReorderedFrame

ScheduleSpec == Init /\ [][ScheduleNext]_vars

\* a restart is pending while the jump that a click started in the frame that
\* completed the fall is still open, its fall armed
C22_Leftover ==
    /\ game_state = "GameOver" /\ next_game_state = <<"Playing">>
    /\ ~jump_state.completed /\ ~fall_state.completed
    /\ \A in \in InputsOf(World) :
           LET w == BeforeUpdate(World, in)
           IN  w.game_state = "Playing" /\ ~w.jump_state.completed


----------------------------------------------------------------------------
(* The resolver on its own: player.rs, player_jump *)

\* the configurations the release branch is called in.  Current lies at `at`,
\* Next `distance` further along the layout axis, the player `along` further
\* along that axis than the centre of Current and `across` off it on the other
\* axis, and the charge has lasted `elapsed`.
ResolverDistances == {MIN_DISTANCE, 600, MAX_DISTANCE - 1}
ResolverElapsed == 0 .. 30
ResolverAlong == {0 - 149, 0 - 20, 0 - 10, 0, 10, 149}
ResolverAcross == {0 - 149, 0, 149}
ResolverOrigins == {Vec3(0, PLATFORM_Y, 0), Vec3(600, PLATFORM_Y, 0 - 1200)}

Configurations ==
    [at : ResolverOrigins, distance : ResolverDistances, along : ResolverAlong,
     across : ResolverAcross, elapsed : ResolverElapsed,
     current_shape : Shapes, next_shape : Shapes]

\* a point `along` further along the layout axis and `across` off it: towards
\* +X with the other axis Z, or towards -Z with the other axis X
Offset(from, along_x, along, across, y) ==
    IF along_x THEN Vec3(from.x + along, y, from.z + across)
    ELSE Vec3(from.x + across, y, from.z - along)

\* what the session before has left in the JumpState and the FallState
StaleJumpState ==
    [start_pos |-> INITIAL_PLAYER_POS, end_pos |-> Vec3(300, REST_HEIGHT, 0),
     animation_duration |-> MIN_JUMP_DURATION, falled |-> TRUE, completed |-> TRUE]
StaleFallState ==
    [pos |-> Vec3(180, REST_HEIGHT, 0), fall_type |-> Tilt(NEG_Z), tilt_completed |-> TRUE,
     completed |-> TRUE, played_sound |-> TRUE]

\* the world player_jump finds when the button is released in a configuration
ResolverWorld(c, along_x, stale) ==
    [game_state |-> "Playing", next_game_state |-> <<>>,
     buttons |-> [pressed |-> FALSE, just_pressed |-> FALSE, just_released |-> TRUE],
     platforms |-> <<Platform(c.at, c.current_shape, TRUE, FALSE),
                     Platform(Offset(c.at, along_x, c.distance, 0, PLATFORM_Y),
                              c.next_shape, FALSE, TRUE)>>,
     players |-> <<[PlayerTransform EXCEPT !.translation =
                       Offset(c.at, along_x, c.along, c.across, REST_HEIGHT)]>>,
     score |-> 0, accumulator |-> <<c.elapsed>>,
     jump_state |-> IF stale THEN StaleJumpState ELSE JumpStateDefault,
     fall_state |-> IF stale THEN StaleFallState ELSE FallStateDefault,
     score_up_queue |-> <<>>, prepare_jump_timer |-> PREPARE_DURATION,
     delta |-> 2, interaction |-> "None", commands |-> <<>>, cues |-> <<>>]

\* the outcome class of the jump player_jump resolves in the world w
Outcome(w) ==
    LET v == player_jump(w)
    IN  IF v.jump_state.completed THEN "no jump"
        ELSE IF ~v.jump_state.falled
             THEN IF v.score > w.score THEN "success on Next" ELSE "success on Current"
             ELSE IF v.fall_state.fall_type.kind = "Straight" THEN "straight fall"
             ELSE IF is_touched_player(CurrentOf(w).shape, CurrentOf(w).translation,
                                       v.fall_state.pos, PLAYER_RADIUS)
                  THEN "tilt on Current"
                  ELSE "tilt on Next"

\* a release is about to be resolved
ResolverInit ==
    Startup /\ probe \in {<<c>> : c \in Configurations} /\ verdict = <<>> /\ Cameras

\* player_jump runs on the configuration laid out along X, on its mirror image
\* laid out along -Z, and on the configuration along X once more with the
\* leftovers of an earlier session in the JumpState and the FallState
Resolve ==
    /\ probe # <<>> /\ verdict = <<>>
    /\ verdict' = <<[along_x |-> Outcome(ResolverWorld(probe[1], TRUE, FALSE)),
                     along_z |-> Outcome(ResolverWorld(probe[1], FALSE, FALSE)),
                     again |-> Outcome(ResolverWorld(probe[1], TRUE, TRUE))]>>
    /\ UNCHANGED <<app, probe, camera, camera_move_state>>

ResolverSpec == ResolverInit /\ [][Resolve]_vars

OutcomeClasses ==
    {"success on Current", "success on Next", "tilt on Current", "tilt on Next",
     "straight fall"}

\* C23: a configuration laid out along X and travelled towards +X and its
\* mirror image laid out along Z and travelled towards -Z, with the same
\* distance between the platforms, the same offsets of the player and the same
\* charge duration, are resolved with the same outcome class, one of success on
\* Current, success on Next, tilt on Current, tilt on Next and straight fall;
\* and a configuration is resolved with the same outcome class whatever the
\* JumpState and the FallState held before.
C23_MirroredClassification ==
    verdict # <<>> =>
        /\ verdict[1].along_x \in OutcomeClasses
        /\ verdict[1].along_z = verdict[1].along_x
        /\ verdict[1].again = verdict[1].along_x

\* a jump from off the centre of Current that grazes the near edge of a
\* Cylinder 2.5 away has been resolved along both axes as a tilt on Next
C23_Witness ==
    /\ verdict # <<>>
    /\ probe[1].distance = MIN_DISTANCE /\ probe[1].next_shape = "Cylinder"
    /\ probe[1].along = 0 - 10 /\ probe[1].across = 149
    /\ verdict[1].along_x = "tilt on Next" /\ verdict[1].along_z = "tilt on Next"


----------------------------------------------------------------------------
(* The layout axis *)

\* everything rand::thread_rng can give one call of generate_next_platform:
\* gen_range(2.5..4.0) is half open
AllDraws ==
    [rand_distance : MIN_DISTANCE .. MAX_DISTANCE - 1, along_x : BOOLEAN, shape : Shapes]

\* nxt lies `distance` from cur towards +X (along_x) or towards -Z, at the
\* height 0.5 (100), and the other horizontal coordinate is that of cur
spawned_along(cur, nxt, along_x, distance) ==
    /\ nxt.y = 100
    /\ IF along_x THEN nxt.x = cur.x + distance /\ nxt.z = cur.z
                  ELSE nxt.z = cur.z - distance /\ nxt.x = cur.x

\* the worlds generate_next_platform can find in the coming frame, without the
\* frame time, the mouse button, the timer and the charge, none of which it reads
GenerateWorlds ==
    {[BeforeGenerateNextPlatform(BeforeUpdate(World, in))
         EXCEPT !.delta = 0, !.buttons = World.buttons,
                !.prepare_jump_timer = 0, !.accumulator = <<>>] :
        in \in PlayingInputs}

\* C24: every Next platform lies from Current at +d in X or at -d in Z with
\* 2.5 <= d < 4.0 (500 <= d < 800) at the height 0.5, never off both axes: at
\* every frame boundary, and after every run of generate_next_platform that
\* finds no Next, whatever it draws; and the layout test of the resolver
\* (X-difference of Next and Current below 0.1) tells along which of the two
\* axes the Next platform was spawned.
C24_LayoutAxis ==
    /\ \A c \in q_current_platform(platforms) : \A n \in q_next_platform(platforms) :
           LET cur == platforms[c].translation
               nxt == platforms[n].translation
               distance == (nxt.x - cur.x) + (cur.z - nxt.z)
           IN  /\ distance >= 500 /\ distance < 800
               /\ \E along_x \in BOOLEAN :
                      /\ spawned_along(cur, nxt, along_x, distance)
                      /\ layout_along_z(cur, nxt) = ~along_x
    /\ \A w \in GenerateWorlds :
           q_next_platform(w.platforms) = {} =>
               \A draw \in AllDraws :
                   \A ps \in {apply_deferred(generate_next_platform(w, draw)).platforms} :
                       \A cur \in {CurrentOf(w).translation} :
                           /\ Cardinality(q_next_platform(ps)) = 1
                           /\ draw.rand_distance >= 500 /\ draw.rand_distance < 800
                           /\ \A n \in q_next_platform(ps) :
                                  /\ spawned_along(cur, ps[n].translation,
                                                   draw.along_x, draw.rand_distance)
                                  /\ ps[n].translation # cur
                                  /\ layout_along_z(cur, ps[n].translation)
                                         = ~draw.along_x

\* generate_next_platform is about to run without a Next after a promotion,
\* with Current away from the origin: a draw of 2.5 towards -Z and a draw of
\* just below 4.0 towards +X are both told apart by the layout test
C24_Witness ==
    \E in \in PlayingInputs :
        LET w == BeforeGenerateNextPlatform(BeforeUpdate(World, in))
            z == apply_deferred(generate_next_platform(w,
                     [rand_distance |-> MIN_DISTANCE, along_x |-> FALSE, shape |-> "Box"]))
            x == apply_deferred(generate_next_platform(w,
                     [rand_distance |-> MAX_DISTANCE - 1, along_x |-> TRUE, shape |-> "Box"]))
        IN  /\ q_next_platform(w.platforms) = {}
            /\ CurrentOf(w).translation # Vec3(0, PLATFORM_Y, 0)
            /\ layout_along_z(CurrentOf(w).translation, NextOf(z).translation)
            /\ ~layout_along_z(CurrentOf(w).translation, NextOf(x).translation)


----------------------------------------------------------------------------
(* What every resolved release leaves *)

\* C25: every release that player_jump resolves, whether the jump succeeds or
\* fails, leaves the Accumulator None and the arc started: JumpState.completed
\* false, start_pos the player's position, end_pos the landing position (the
\* player's position moved by 3.0 * d along the layout axis, at the rest
\* height) and animation_duration max(0.5, d / 2) for the charge duration d; a
\* failed jump arms its fall at that same landing position.
C25_ReleaseStartsArc ==
    \A in \in ResolvingInputs :
        LET w == PlayerJumpWorld(in)
            d == after_press(w).accumulator[1]
            v == player_jump(w)
            player == w.players[Single(DOMAIN w.players)].translation
            intended ==
                IF NextOf(w).translation.x - CurrentOf(w).translation.x < 20
                THEN Vec3(player.x, 300, player.z - 30 * d)
                ELSE Vec3(player.x + 30 * d, 300, player.z)
        IN  /\ v.accumulator = <<>>
            /\ ~v.jump_state.completed
            /\ v.jump_state.start_pos = player
            /\ v.jump_state.end_pos = intended
            /\ 2 * v.jump_state.animation_duration = Max(20, d)
            /\ v.jump_state.falled => ~v.fall_state.completed /\ v.fall_state.pos = intended

\* a charge of 1.3 s is about to be resolved as a failure beyond Next: the arc
\* takes 0.65 s
C25_Witness ==
    \E in \in ResolvingInputs :
        LET w == PlayerJumpWorld(in)
            v == player_jump(w)
        IN  /\ w.accumulator = <<26>>
            /\ v.jump_state.falled
            /\ v.jump_state.animation_duration = 13
            /\ v.jump_state.start_pos # v.jump_state.end_pos
            /\ v.accumulator = <<>>


----------------------------------------------------------------------------
(* The tilt after an edge touch *)

\* the releases of the coming frame that fail with the landing position
\* touching the edge of Current
TouchingCurrent ==
    {in \in ResolvingInputs :
        LET w == PlayerJumpWorld(in)
            v == player_jump(w)
        IN  /\ v.jump_state.falled
            /\ is_touched_player(CurrentOf(w).shape, CurrentOf(w).translation,
                                 v.jump_state.end_pos, PLAYER_RADIUS)}

\* the horizontal displacement of a started jump is along X
displaced_along_x(js) == js.end_pos.x # js.start_pos.x

\* C26 as stated: on a failed jump whose landing position edge-touches Current
\* the stored tilt direction is -X if the horizontal displacement of the jump
\* was along X, and -Z otherwise.
C26_TiltNamesTravelAxis ==
    \A in \in TouchingCurrent :
        LET v == player_jump(PlayerJumpWorld(in))
        IN  v.fall_state.fall_type =
                Tilt(IF displaced_along_x(v.jump_state) THEN NEG_X ELSE NEG_Z)

\* C26, amended: on a failed jump whose landing position edge-touches Current
\* the stored tilt direction is -Z if the horizontal displacement of the jump
\* was along X, and -X otherwise (a displacement along Z); it is the axis the
\* tilt turns about, and the tilt about it carries the player on along the
\* travel axis (towards +X, respectively towards -Z), away from Current, and
\* leaves the other horizontal coordinate alone.
C26_TiltAwayFromCurrent ==
    \A in \in TouchingCurrent :
        LET w == PlayerJumpWorld(in)
            v == player_jump(w)
            along_x == NextOf(w).translation.x - CurrentOf(w).translation.x >= AXIS_EPSILON
            landing == v.jump_state.end_pos
        IN  /\ along_x = displaced_along_x(v.jump_state)
            /\ v.fall_state.fall_type = Tilt(IF along_x THEN NEG_Z ELSE NEG_X)
            /\ v.fall_state.pos = landing
            /\ \A t \in {2 * n : n \in 1 .. 12} :
                   LET p == tilted_translation(v.fall_state.pos,
                                               v.fall_state.fall_type.direction, t)
                   IN  IF along_x
                       THEN /\ p.x > landing.x /\ p.z = landing.z
                            /\ landing.x > CurrentOf(w).translation.x
                       ELSE /\ p.z < landing.z /\ p.x = landing.x
                            /\ landing.z < CurrentOf(w).translation.z

\* a jump along X has fallen short just beyond the edge of Current and the
\* player is tipping over towards +X about -Z
C26_Witness ==
    /\ game_state = "Playing"
    /\ jump_state.completed /\ jump_state.falled /\ ~fall_state.completed
    /\ displaced_along_x(jump_state)
    /\ fall_state.fall_type = Tilt(NEG_Z)
    /\ \E e \in q_current_platform(platforms) :
           is_touched_player(platforms[e].shape, platforms[e].translation,
                             fall_state.pos, PLAYER_RADIUS)
    /\ \E e \in DOMAIN players :
           /\ players[e].tilt > 0
           /\ players[e].translation.x > fall_state.pos.x


\* the releases of the coming frame that fail with the landing position
\* touching the edge of Next
TouchingNext ==
    {in \in ResolvingInputs :
        LET w == PlayerJumpWorld(in)
            v == player_jump(w)
        IN  /\ v.jump_state.falled
            /\ is_touched_player(NextOf(w).shape, NextOf(w).translation,
                                 v.jump_state.end_pos, PLAYER_RADIUS)}

\* C27: on a failed jump whose landing position does not touch Current but
\* edge-touches Next a Tilt fall is armed.  Its direction follows the travel
\* axis and the side of Next the landing position is on: along X it is +Z short
\* of Next and -Z past it, along Z it is +X short of Next and -X past it.  The
\* tilt about that direction carries the player away from Next along the travel
\* axis, back towards Current when it fell short and onward when it overshot.
\* The touch of Current is tested first: a landing position that touches
\* Current gets the direction of that branch, and no landing position touches
\* both platforms.
C27_TiltAwayFromNext ==
    /\ TouchingCurrent \cap TouchingNext = {}
    /\ \A in \in TouchingNext \ TouchingCurrent :
        LET w == PlayerJumpWorld(in)
            v == player_jump(w)
            nxt == NextOf(w).translation
            along_x == nxt.x - CurrentOf(w).translation.x >= AXIS_EPSILON
            landing == v.jump_state.end_pos
            short == IF along_x THEN landing.x < nxt.x ELSE landing.z > nxt.z
            past == IF along_x THEN landing.x > nxt.x ELSE landing.z < nxt.z
        IN  /\ short \/ past
            /\ along_x = displaced_along_x(v.jump_state)
            /\ v.fall_state.fall_type =
                   Tilt(IF along_x THEN (IF short THEN Z_AXIS ELSE NEG_Z)
                                   ELSE (IF short THEN X_AXIS ELSE NEG_X))
            /\ v.fall_state.pos = landing /\ ~v.fall_state.completed
            /\ \A t \in {2 * n : n \in 1 .. 12} :
                   LET p == tilted_translation(v.fall_state.pos,
                                               v.fall_state.fall_type.direction, t)
                   IN  IF along_x
                       THEN /\ p.z = landing.z
                            /\ IF short THEN p.x < landing.x ELSE p.x > landing.x
                       ELSE /\ p.x = landing.x
                            /\ IF short THEN p.z > landing.z ELSE p.z < landing.z
    /\ \A in \in TouchingCurrent :
           player_jump(PlayerJumpWorld(in)).fall_state.fall_type.direction \in {NEG_X, NEG_Z}

\* a jump along X has stopped short of Next on its edge and the player is
\* tipping back towards Current about +Z
C27_Witness ==
    /\ game_state = "Playing"
    /\ jump_state.completed /\ jump_state.falled /\ ~fall_state.completed
    /\ displaced_along_x(jump_state)
    /\ fall_state.fall_type = Tilt(Z_AXIS)
    /\ \E e \in q_next_platform(platforms) :
           /\ is_touched_player(platforms[e].shape, platforms[e].translation,
                                fall_state.pos, PLAYER_RADIUS)
           /\ fall_state.pos.x < platforms[e].translation.x
    /\ \E e \in q_current_platform(platforms) :
           ~is_touched_player(platforms[e].shape, platforms[e].translation,
                              fall_state.pos, PLAYER_RADIUS)
    /\ \E e \in DOMAIN players :
           /\ players[e].tilt > 0
           /\ players[e].translation.x < fall_state.pos.x


----------------------------------------------------------------------------
(* The rotation axis of the arc on its own *)

\* 3.0 * d for the charge durations d of a quick click and of a short press, in
\* steps of 0.005 up to twice the epsilon of rotate_axis: a press and a release
\* in successive frames at 60 frames a second give d = 1/60 s and a
\* displacement of 0.05
ArcDisplacements == 0 .. 2 * AXIS_EPSILON

\* where the player stands when the jump starts: the first platform, and a
\* platform further along either axis
ArcOrigins ==
    {Vec3(0, REST_HEIGHT, 0), Vec3(MIN_DISTANCE, REST_HEIGHT, 0),
     Vec3(0, REST_HEIGHT, 0 - MIN_DISTANCE)}

StartedJumps ==
    [start_pos : ArcOrigins, along_x : BOOLEAN, displacement : ArcDisplacements]

\* the JumpState player_jump leaves for a started jump: the landing position is
\* the start moved towards +X or towards -Z
started(j) ==
    JumpState_animate_jump(StaleJumpState, j.start_pos,
        IF j.along_x
        THEN Vec3(j.start_pos.x + j.displacement, j.start_pos.y, j.start_pos.z)
        ELSE Vec3(j.start_pos.x, j.start_pos.y, j.start_pos.z - j.displacement),
        MIN_JUMP_DURATION)

\* a jump has been started
AxisInit ==
    Startup /\ probe \in {<<j>> : j \in StartedJumps} /\ verdict = <<>> /\ Cameras

\* animate_jump works out the axis of its rotation
Rotate ==
    /\ probe # <<>> /\ verdict = <<>>
    /\ verdict' = <<rotate_axis(started(probe[1]))>>
    /\ UNCHANGED <<app, probe, camera, camera_move_state>>

AxisSpec == AxisInit /\ [][Rotate]_vars

\* C28: for every started jump the arc rotates about the horizontal axis
\* perpendicular to the travel axis of the jump: about Z when the jump is
\* displaced along X and about X when it is displaced along Z, for every
\* magnitude of the displacement, those below 0.1 included.
C28_AxisPerpendicularToTravel ==
    verdict # <<>> /\ probe[1].displacement > 0 =>
        verdict[1] = IF probe[1].along_x THEN Z_AXIS ELSE X_AXIS

\* a jump displaced by 0.05 along X rotates about X, the axis it travels along
C28_SpinAboutTravelAxis ==
    /\ verdict = <<X_AXIS>>
    /\ probe[1].along_x /\ probe[1].displacement = 10
    /\ started(probe[1]).end_pos.x > started(probe[1]).start_pos.x
    /\ started(probe[1]).end_pos.z = started(probe[1]).start_pos.z


----------------------------------------------------------------------------
(* The end of the arc *)

\* the world animate_jump finds in the coming frame under the input `in`
AnimateJumpWorld(in) == BeforeAnimateJump(BeforeUpdate(World, in), in.draw)

\* the inputs of the coming frame under which animate_jump completes an arc
CompletingInputs ==
    {in \in PlayingInputs :
        /\ ~AnimateJumpWorld(in).jump_state.completed
        /\ animate_jump(AnimateJumpWorld(in)).jump_state.completed}

\* C29: in the frame in which a jump arc completes, animate_jump leaves the
\* player exactly at JumpState.end_pos, the landing position the release
\* computed in an earlier frame, with the identity rotation, sets
\* JumpState.completed, and emits the success cue if and only if
\* JumpState.falled is false.  After a successful jump the frame ends with the
\* player there and upright; after a failed one animate_fall, which runs later
\* in the frame, starts the fall from there.
C29_ArcCompletion ==
    \A in \in CompletingInputs :
        LET before == AnimateJumpWorld(in)
            after == animate_jump(before)
            frame == Frame(World, in)
            e == Single(DOMAIN before.players)
        IN  /\ ~jump_state.completed /\ before.jump_state = jump_state
            /\ after.jump_state = [jump_state EXCEPT !.completed = TRUE]
            /\ after.players[e].translation = jump_state.end_pos
            /\ after.players[e].upright /\ after.players[e].swept = 0
            /\ after.cues = IF jump_state.falled THEN before.cues
                                                 ELSE Append(before.cues, "success")
            /\ \A i \in DOMAIN before.cues : before.cues[i] # "success"
            /\ IF jump_state.falled
               THEN /\ \A i \in DOMAIN frame.cues : frame.cues[i] # "success"
                    /\ frame.fall_state.played_sound
                    /\ frame.fall_state.pos = jump_state.end_pos
               ELSE /\ frame.players[e].translation = jump_state.end_pos
                    /\ frame.players[e].upright
                    /\ \E i \in DOMAIN frame.cues : frame.cues[i] = "success"

\* a jump that will land is in the air, over its second half, and the coming
\* frame ends it
C29_Witness ==
    /\ ~jump_state.falled
    /\ jump_state.end_pos # jump_state.start_pos
    /\ \E e \in DOMAIN players : ~players[e].upright /\ players[e].swept > 0
                                 /\ players[e].translation # jump_state.end_pos
    /\ CompletingInputs # {}
    /\ \A in \in CompletingInputs :
           animate_jump(AnimateJumpWorld(in)).cues = <<"success">>


----------------------------------------------------------------------------
(* The phases of a fall *)

\* the squared distance of two points
distance_squared(a, b) ==
    (a.x - b.x) * (a.x - b.x) + (a.y - b.y) * (a.y - b.y) + (a.z - b.z) * (a.z - b.z)

\* C30: the phases of a fall are ordered and thresholded.  A run of animate_fall
\* on a Straight fall either sees the height below 0.5 and completes the fall,
\* leaving the player alone, or lowers the height by 0.7 * dt and leaves the
\* horizontal position alone.  A run on a Tilt fall whose tilt is not completed
\* either sees the height below the pivot height 1.0 and sets tilt_completed,
\* or turns the player about the pivot, 0.5 away from it, without completing
\* anything; once tilt_completed is set it stays set for the rest of the fall,
\* and a run either sees the height below 0.2 and completes the fall or lowers
\* the height by 0.7 * dt.  No frame of a fall changes its kind, its direction
\* or its position, or takes tilt_completed back.
C30_FallPhases ==
    \A in \in PlayingInputs :
        LET b == AnimateFallWorld(in)
            a == animate_fall(b)
            frame == Frame(World, in)
            e == Single(DOMAIN b.players)
            was == b.players[e].translation
            is == a.players[e].translation
            sounded == [b.fall_state EXCEPT !.played_sound = TRUE]
            pivot == Vec3(b.fall_state.pos.x, INITIAL_PLAYER_POS.y - PIVOT_DROP,
                          b.fall_state.pos.z)
            lowered == /\ is = [was EXCEPT !.y = @ - FALL_SPEED * b.delta]
                       /\ is.y < was.y
                       /\ a.fall_state = sounded
                       /\ a.next_game_state = b.next_game_state
            ended == /\ a.players = b.players
                     /\ a.fall_state = [sounded EXCEPT !.completed = TRUE]
                     /\ a.next_game_state = <<"GameOver">>
        IN  /\ ~b.fall_state.completed /\ b.jump_state.completed =>
                IF b.fall_state.fall_type.kind = "Straight"
                THEN IF was.y < STRAIGHT_FLOOR THEN ended ELSE lowered
                ELSE IF ~b.fall_state.tilt_completed
                THEN IF was.y < pivot.y
                     THEN /\ a.players = b.players
                          /\ a.fall_state = [sounded EXCEPT !.tilt_completed = TRUE]
                          /\ a.next_game_state = b.next_game_state
                     ELSE /\ a.fall_state = sounded
                          /\ a.next_game_state = b.next_game_state
                          /\ Abs(distance_squared(is, pivot) - PIVOT_DROP * PIVOT_DROP)
                                 <= PIVOT_DROP
                          /\ is.y < was.y
                ELSE IF was.y < TILT_FLOOR THEN ended ELSE lowered
            /\ ~(~b.fall_state.completed /\ b.jump_state.completed) =>
                   a.players = b.players /\ a.fall_state = b.fall_state
            /\ ~fall_state.completed =>
                   /\ frame.fall_state.fall_type = fall_state.fall_type
                   /\ frame.fall_state.pos = fall_state.pos
                   /\ fall_state.tilt_completed => frame.fall_state.tilt_completed

\* a Tilt fall has tipped the player over and lowered it below 0.2: the coming
\* frame completes the fall
C30_Witness ==
    /\ game_state = "Playing"
    /\ jump_state.completed /\ ~fall_state.completed
    /\ fall_state.fall_type.kind = "Tilt" /\ fall_state.tilt_completed
    /\ \E e \in DOMAIN players :
           /\ players[e].translation.y < TILT_FLOOR
           /\ players[e].translation.x # fall_state.pos.x
    /\ \A in \in PlayingInputs : Frame(World, in).fall_state.completed


----------------------------------------------------------------------------
(* When the camera step is recomputed *)

\* C31: in an idle frame (JumpState.completed and FallState.completed)
\* move_camera recomputes the stored step, to 5% of the camera's destination
\* minus the camera's position, and stores the player's position as the last
\* seen one, exactly when the player is more than 0.1 away from the last seen
\* position; in every other frame the stored step and the last seen position
\* stay as they are, also when the player has moved by 0.1 or less.
C31_StepRecomputedOnMove ==
    LET w == CameraWorld
        a == move_camera(w)
        player == w.players[Single(DOMAIN w.players)].translation
        seen == w.camera_move_state.player_pos
        away == (seen.x - player.x) * (seen.x - player.x)
                    + (seen.y - player.y) * (seen.y - player.y)
                    + (seen.z - player.z) * (seen.z - player.z)
        remaining == Minus(Scaled(Plus(INITIAL_CAMERA_POS, player), FINE), w.camera)
    IN  IF w.jump_state.completed /\ w.fall_state.completed /\ away > MOVE_EPSILON * MOVE_EPSILON
        THEN /\ a.camera_move_state.player_pos = player
             /\ Divisible(remaining, STEP_DIVISOR) =>
                    Scaled(a.camera_move_state.step, STEP_DIVISOR) = remaining
        ELSE a.camera_move_state = w.camera_move_state

\* the player has made two taps of 0.05 since the step was last computed and
\* stands exactly 0.1 from the last seen position: move_camera has run and has
\* left the step and the last seen position alone
C31_Witness ==
    LET w == CameraWorld
        player == w.players[Single(DOMAIN w.players)].translation
    IN  /\ jump_state.completed /\ fall_state.completed
        /\ camera_move_state.player_pos.z - player.z = MOVE_EPSILON
        /\ camera_move_state.player_pos.x = player.x
        /\ move_camera(w) = w
        /\ camera_move_state.step # ZERO


----------------------------------------------------------------------------
(* The queue of score popups *)

\* main.rs adds spawn_score_up_effect to Update without ordering it against
\* player_jump and animate_jump.  Here it runs between the two.
UpdatePlayingPopupEarly(w, draw) ==
    Run({apply_deferred(v6) : v6 \in {animate_fall(v5) : v5 \in
        {animate_jump(v4) : v4 \in {spawn_score_up_effect(v3) : v3 \in
        {player_jump(v2) : v2 \in {generate_next_platform(v1, draw) : v1 \in
        {prepare_jump(v0) : v0 \in {w}}}}}}}})

\* one frame of the app in that order
FramePopupEarly(w, in) ==
    Run({IF u.game_state = "Playing" THEN UpdatePlayingPopupEarly(u, in.draw)
                                     ELSE click_button(u) :
            u \in {BeforeUpdate(w, in)}})

\* the inputs under which such a frame is followed
InputsPopupEarly(w) ==
    {in \in CandidateInputs(w) :
        \/ w.score < MaxScore
        \/ in.event \notin {"release", "click"}
        \/ FramePopupEarly(w, in).score <= MaxScore}

\* a frame of play in which spawn_score_up_effect runs before animate_jump
PopupEarlyFrame ==
    /\ game_state = "Playing"
    /\ \E in \in InputsPopupEarly(World) :
           \E w \in {FramePopupEarly(World, in)} : Becomes(w)

QueueNext == MenuFrame \/ PopupEarlyFrame

QueueSpec == Init /\ [][QueueNext]_vars

\* frames keep coming
FairQueueSpec == QueueSpec /\ WF_vars(PopupEarlyFrame)

\* the number of "+1" popups among the cues of a frame
popup_count(cues) == Cardinality({i \in DOMAIN cues : cues[i] = "popup"})

\* the frames of play that can follow, those that raise the score beyond
\* MaxScore included
ComingFrames ==
    IF game_state = "Playing" \/ next_game_state = <<"Playing">>
    THEN {in \in CandidateInputs(World) : BeforeUpdate(World, in).game_state = "Playing"}
    ELSE {}

\* the worlds spawn_score_up_effect can find in the coming frame: after
\* animate_fall, as in the tuple, or right after player_jump
SpawnWorlds(in) ==
    {BeforeSpawnScoreUp(BeforeUpdate(World, in), in.draw),
     player_jump(PlayerJumpWorld(in))}

\* a run of player_jump enqueues one event when it scores, into an empty queue,
\* and a run of spawn_score_up_effect makes one popup of a queued event and
\* empties the queue when it finds JumpState.completed, and does nothing else
queue_served ==
    /\ Len(score_up_queue) <= 1
    /\ \A in \in ComingFrames :
           LET j == PlayerJumpWorld(in)
               r == player_jump(j)
           IN  /\ Len(r.score_up_queue) <= 1
               /\ r.score > j.score =>
                      /\ j.score_up_queue = <<>>
                      /\ r.score_up_queue = <<ScoreUpEvent(r.jump_state.end_pos)>>
                      /\ ~r.jump_state.completed
               /\ r.score = j.score => r.score_up_queue = j.score_up_queue
               /\ \A p \in SpawnWorlds(in) :
                      LET a == spawn_score_up_effect(p)
                      IN  IF p.jump_state.completed
                          THEN /\ popup_count(a.cues)
                                      = popup_count(p.cues) + Len(p.score_up_queue)
                               /\ a.score_up_queue = <<>>
                          ELSE a = p

\* C32: every ScoreUpEvent enqueued by a landing on Next is consumed exactly
\* once.  The queue never holds more than one event; an event is enqueued by the
\* release that scores, into an empty queue; it stays in the queue while the arc
\* of that jump is in flight; the first run of spawn_score_up_effect that finds
\* JumpState.completed true makes exactly one popup of it and leaves the queue
\* empty, a run that finds it false makes none; and every event that is in the
\* queue is consumed in a later frame.
C32_EventConsumedOnce ==
    /\ []queue_served
    /\ [][score_up_queue' # score_up_queue =>
              \/ /\ score_up_queue = <<>> /\ score' = score + 1
                 /\ score_up_queue' = <<ScoreUpEvent(jump_state'.end_pos)>>
              \/ /\ score_up_queue' = <<>>
                 /\ jump_state.completed \/ jump_state'.completed]_vars
    /\ [][score_up_queue' = score_up_queue /\ score_up_queue # <<>> =>
              ~jump_state.completed \/ ~jump_state'.completed]_vars
    /\ (score_up_queue # <<>>) ~> (score_up_queue = <<>>)

\* the jump that scored has landed, and a click in the frame after it has
\* started a jump that goes nowhere before spawn_score_up_effect ran: the event
\* is in the queue and the arc in flight never ends
C32_EventLeftInQueue ==
    /\ game_state = "Playing"
    /\ Len(score_up_queue) = 1 /\ score = 1
    /\ ~jump_state.completed /\ ~jump_state.falled
    /\ jump_state.start_pos = jump_state.end_pos
    /\ \A in \in InputsPopupEarly(World) :
           /\ ~FramePopupEarly(World, in).jump_state.completed
           /\ FramePopupEarly(World, in).score_up_queue = score_up_queue


----------------------------------------------------------------------------
(* Where the idle player stands *)

\* C33: whenever the session is Playing and JumpState and FallState are both
\* completed, after any sequence of jumps that landed on Next or on Current
\* again (no fall has ended the session: no GameOver is pending), exactly one
\* platform is tagged Current, the player's horizontal position is inside its
\* footprint, |dx| < 0.75 and |dz| < 0.75, and the player's height is the rest
\* height 1.5.
C33_IdleOnCurrent ==
    game_state = "Playing" /\ next_game_state # <<"GameOver">>
        /\ jump_state.completed /\ fall_state.completed =>
            /\ Cardinality(q_current_platform(platforms)) = 1
            /\ Cardinality(DOMAIN players) = 1
            /\ \A c \in q_current_platform(platforms), e \in DOMAIN players :
                   /\ Abs(players[e].translation.x - platforms[c].translation.x) < BOX_HALF
                   /\ Abs(players[e].translation.z - platforms[c].translation.z) < BOX_HALF
                   /\ players[e].translation.y = REST_HEIGHT

\* the player has hopped 0.6 along X on the first platform, has jumped on to
\* Next and stands idle 0.6 off the centre of the new Current, with a new Next
\* ahead
C33_Witness ==
    /\ game_state = "Playing" /\ next_game_state = <<>>
    /\ jump_state.completed /\ fall_state.completed
    /\ score = 1 /\ q_next_platform(platforms) # {}
    /\ \E c \in q_current_platform(platforms), e \in DOMAIN players :
           /\ platforms[c].translation.x = 600
           /\ players[e].translation.x - platforms[c].translation.x = 120
           /\ players[e].translation = jump_state.end_pos


----------------------------------------------------------------------------
(* Current and Next do not overlap *)

\* the fall a failed jump arms when the touch of Next is tested before that of
\* Current
armed_fall_next_first(fs, cur, nxt, landing_pos, player_translation) ==
    IF is_touched_player(nxt.shape, nxt.translation, landing_pos, PLAYER_RADIUS)
    THEN FallState_animate_tilt_fall(fs, landing_pos,
             fall_direction_next(landing_pos, player_translation, nxt.translation))
    ELSE IF is_touched_player(cur.shape, cur.translation, landing_pos, PLAYER_RADIUS)
    THEN FallState_animate_tilt_fall(fs, landing_pos,
             fall_direction_current(landing_pos, player_translation))
    ELSE FallState_animate_straight_fall(fs, landing_pos)

\* the points of the line of travel from 1.0 before the centre of Current to 1.0
\* beyond the centre of Next, in steps of 0.005
LinePoints(c) == (0 - 200) .. (c.distance + 200)

\* C34: for every Current/Next pair, Next at least 2.5 further along the
\* layout axis and level with Current on the other axis, no landing position is
\* landed on both platforms and none is touched with the radius 0.2 by both; so
\* the fall a failed jump arms is the same whether the touch of Current or that
\* of Next is tested first, and the landing position of a jump from inside the
\* footprint of Current is less than 0.75 from the centres of both platforms on
\* the axis orthogonal to the layout axis.
C34_PlatformsApart ==
    probe # <<>> =>
        \A along_x \in BOOLEAN :
            LET c == probe[1]
                w == ResolverWorld(c, along_x, FALSE)
                cur == CurrentOf(w)
                nxt == NextOf(w)
                player == w.players[Single(DOMAIN w.players)].translation
                landing == player_jump(w).jump_state.end_pos
                on_both(p) ==
                    /\ is_landed_on_platform(cur.shape, cur.translation, p)
                    /\ is_landed_on_platform(nxt.shape, nxt.translation, p)
                by_both(p) ==
                    /\ is_touched_player(cur.shape, cur.translation, p, PLAYER_RADIUS)
                    /\ is_touched_player(nxt.shape, nxt.translation, p, PLAYER_RADIUS)
            IN  /\ (nxt.translation.x - cur.translation.x)
                       + (cur.translation.z - nxt.translation.z) >= MIN_DISTANCE
                /\ ~on_both(landing) /\ ~by_both(landing)
                /\ c.elapsed = 0 =>
                       \A a \in LinePoints(c) :
                           LET p == Offset(c.at, along_x, a, c.across, REST_HEIGHT)
                           IN  ~on_both(p) /\ ~by_both(p)
                /\ armed_fall(w.fall_state, cur, nxt, landing, player)
                       = armed_fall_next_first(w.fall_state, cur, nxt, landing, player)
                /\ IF along_x
                   THEN /\ Abs(landing.z - cur.translation.z) < BOX_HALF
                        /\ Abs(landing.z - nxt.translation.z) < BOX_HALF
                   ELSE /\ Abs(landing.x - cur.translation.x) < BOX_HALF
                        /\ Abs(landing.x - nxt.translation.x) < BOX_HALF

\* a jump from the edge of the footprint of Current, with Next only 2.5 away,
\* has come down in the middle between the two platforms, out of the reach of
\* both, and has been resolved as a straight fall in both layouts
C34_Witness ==
    /\ verdict # <<>>
    /\ probe[1].distance = MIN_DISTANCE /\ probe[1].across = 149
    /\ probe[1].along = 10 /\ probe[1].elapsed = 8
    /\ verdict[1].along_x = "straight fall" /\ verdict[1].along_z = "straight fall"


----------------------------------------------------------------------------
(* The guard window after a session start *)

\* the button goes down within the frame and stays down; a button that was
\* held is let go first
FirstPressing(w, dt) ==
    [First(w, dt, "press", "None") EXCEPT !.buttons.just_released = w.buttons.pressed]

\* the frame without its mouse event
Eventless(in) == [in EXCEPT !.event = "none"]

\* a frame that enters Playing with the button going down, player_jump finding
\* the PrepareJumpTimer unfinished, and the frame after it, in which the button
\* is let go and player_jump finds the timer finished: the worlds player_jump
\* finds in the two frames
WindowPresses ==
    IF next_game_state # <<"Playing">> THEN {}
    ELSE UNION { UNION {
             LET u == StateTransition(FirstPressing(World, dt), shape)
                 after == Boundary(UpdatePlaying(u, draw))
             IN  {[pressed_in |-> BeforePlayerJump(u, draw),
                   released_in |-> BeforePlayerJump(BeforeUpdate(after, in), in.draw)] :
                      in \in [dt : FrameDeltas, event : {"release"}, button : {"None"},
                              shape : {"Box"}, draw : DrawsOf(after)]}
             : draw \in Draws } : <<dt, shape>> \in FrameDeltas \X Shapes }

\* those of them in which the press falls into the guard window and the release
\* after it
GuardedPresses ==
    {p \in WindowPresses :
        ~prepare_finished(p.pressed_in) /\ prepare_finished(p.released_in)}

\* C35: while the PrepareJumpTimer that OnEnter(GameState::Playing) resets has
\* not finished, player_jump changes nothing, and the frame leaves the
\* Accumulator, the JumpState, the FallState, the Score and the platforms as the
\* same frame without the mouse event leaves them; and when the button goes
\* down in a frame of the guard window and is let go in a frame after it, the
\* release starts no jump.
C35_GuardWindow ==
    /\ \A in \in ComingFrames :
           LET j == PlayerJumpWorld(in)
               f == Frame(World, in)
               g == Frame(World, Eventless(in))
           IN  ~prepare_finished(j) =>
                   /\ player_jump(j) = j
                   /\ f.accumulator = g.accumulator
                   /\ f.jump_state = g.jump_state
                   /\ f.fall_state = g.fall_state
                   /\ f.score = g.score
                   /\ f.platforms = g.platforms
    /\ \A p \in GuardedPresses :
           LET r == player_jump(p.released_in)
           IN  /\ player_jump(p.pressed_in) = p.pressed_in
               /\ r.jump_state = p.released_in.jump_state
               /\ r.fall_state = p.released_in.fall_state
               /\ r.score = p.released_in.score
               /\ r.platforms = p.released_in.platforms

\* a press while the fall is open, in a frame that runs player_jump after the
\* animations and in which the fall ends
LatePressInputs(w) ==
    {in \in [dt : FrameDeltas, event : {"press"}, button : {"None"}, shape : {"Box"},
             draw : DrawsOf(w)] :
        FrameJumpLast(w, in).fall_state.completed}

LatePressFrame ==
    /\ Followed
    /\ game_state = "Playing" /\ next_game_state = <<>>
    /\ ~pressed /\ jump_state.completed /\ ~fall_state.completed
    /\ \E in \in LatePressInputs(World) : \E w \in {FrameJumpLast(World, in)} : Becomes(w)

RestartNext == OrderedFrame \/ LatePressFrame

RestartSpec == Init /\ [][RestartNext]_vars

\* a restart is pending with the charge that a press in the frame that ended the
\* fall has started, nothing else left over, and the release after a press in
\* the guard window starts a jump
C35_StaleCharge ==
    /\ game_state = "GameOver" /\ next_game_state = <<"Playing">>
    /\ accumulator # <<>>
    /\ jump_state.completed /\ fall_state.completed /\ score_up_queue = <<>>
    /\ \E p \in GuardedPresses :
           /\ p.pressed_in.accumulator # <<>>
           /\ ~player_jump(p.released_in).jump_state.completed

====
